---- MODULE Spec2Model ----
(***************************************************************************)
(* Job dispatch / single-winner assignment of the FullRightTouch backend.  *)
(*                                                                         *)
(* The shared store is MongoDB.  respondToJob runs inside a multi-document *)
(* transaction (session.startTransaction): its reads come from the         *)
(* snapshot opened by the first operation that carries the session, its    *)
(* writes stay private until commitTransaction, and a write to a document  *)
(* that another transaction has written (committed after the snapshot, or  *)
(* still uncommitted) throws WriteConflict, which the handler's catch      *)
(* turns into a 500.  Inserts made by other requests after the snapshot    *)
(* are invisible to the transaction.                                       *)
(***************************************************************************)
EXTENDS Integers, FiniteSets, Sequences, TLC

\* ---------------------------------------------------------------- bounds
NumTechs == 3
NumJobs  == 2
MaxCalls == 2
MaxCoord == 3        \* longitudes 0, 10, ..., 10 * MaxCoord km
MaxTime  == 2        \* the clock stops here
MaxOps   == 3        \* wallet and rating requests
MaxWithdraws == 2    \* WithdrawRequest documents
NumUsers == 2

Techs == 1..NumTechs
Jobs  == 1..NumJobs
Calls == 1..MaxCalls
Ops   == 1..MaxOps
WithdrawIds == 1..MaxWithdraws
Users == 1..NumUsers

Null   == 0          \* technicianId: null / missing req.user.technicianProfileId
NoSnap == [none |-> TRUE]

\* ------------------------------------------------------- program constants
OpenStatuses   == {"requested", "broadcasted"}
ActiveStatuses == {"accepted", "on_the_way", "reached", "in_progress"}
AssignedStatuses == ActiveStatuses \cup {"completed"}
AcceptWords    == {"accepted", "accept"}
WorkStatusInputs == {"approved", "suspended"}

VARIABLES
    bookings,     \* ServiceBooking collection: job -> [status, technicianId, assignedAt]
    broadcasts,   \* JobBroadcast collection: job -> tech -> "none" | "sent" | "accepted" | "expired"
    technicians,  \* TechnicianProfile (+ TechnicianKyc): tech -> profile record
    pc,           \* position of each in-flight respondToJob request
    arg,          \* its inputs: handler, technicianProfileId, booking id, status word
    snap,         \* the snapshot its transaction reads from
    pend,         \* its uncommitted writes
    others,       \* its local otherTechIds
    resp,         \* the HTTP response it produced
    atStart,      \* what held in the store when the request arrived
    notified,     \* notifications handed to the transport
    docs,         \* JobBroadcast documents stored per (job, technician)
    view,         \* the answer of the last read-only operation
    location,     \* TechnicianProfile.location: tech -> point or NoPoint
    jobLocation,  \* ServiceBooking.location: job -> point or NoPoint
    lastMatchAt,  \* time of the technician's last location-triggered matching
    clock,        \* the time
    walletBalance,      \* TechnicianProfile.walletBalance: tech -> amount
    withdrawRequests,   \* WithdrawRequest collection: id -> document or NoWithdraw
    walletTransactions, \* WalletTransaction collection: set of ledger entries
    ratings,            \* Rating collection: set of rating documents
    ops                 \* in-flight wallet and rating requests: position and locals

vars == <<bookings, broadcasts, technicians, pc, arg, snap, pend, others,
          resp, atStart, notified, docs, view,
          location, jobLocation, lastMatchAt, clock,
          walletBalance, withdrawRequests, walletTransactions, ratings, ops>>

storeVars == <<bookings, broadcasts, technicians>>
callVars  == <<pc, arg, snap, pend, others, resp, atStart>>
geoVars   == <<location, jobLocation, lastMatchAt, clock>>
walletVars == <<walletBalance, withdrawRequests, walletTransactions>>
sideVars  == <<walletVars, ratings, ops>>
auxVars   == <<docs, view, geoVars, sideVars>>

\* ------------------------------------------------------------- responses
NoResp         == [status |-> 0,   kind |-> "none"]
R_Ok           == [status |-> 200, kind |-> "accepted"]
R_Unauthorized == [status |-> 401, kind |-> "unauthorized"]
R_Busy         == [status |-> 409, kind |-> "busy"]
R_NotOffered   == [status |-> 403, kind |-> "not_offered"]
R_Invalid      == [status |-> 400, kind |-> "invalid"]
R_AlreadyTaken == [status |-> 409, kind |-> "already_taken"]
R_Inactive     == [status |-> 403, kind |-> "inactive"]
R_Ineligible   == [status |-> 403, kind |-> "ineligible"]
R_WriteConflict == [status |-> 500, kind |-> "write_conflict"]
R_StoreError   == [status |-> 500, kind |-> "store_error"]    \* thrown before any write
R_Aborted      == [status |-> 500, kind |-> "aborted"]        \* thrown with writes pending
R_NotifyError  == [status |-> 500, kind |-> "notify_error"]
R_TypeError    == [status |-> 500, kind |-> "type_error"]     \* thrown at line 80

NoArg   == [handler |-> "none", tech |-> Null, job |-> Null, act |-> "none"]
NoBooking == [status |-> "none", technicianId |-> Null, assignedAt |-> 0]
NoPend  == [job |-> NoBooking, rows |-> {}]
NoPoint == [none |-> TRUE]
NoView  == [op |-> "none", tech |-> Null, fail |-> FALSE, ok |-> FALSE,
            reasons |-> {}, jobs |-> {}, status |-> 0,
            list |-> <<>>, match |-> FALSE, point |-> NoPoint,
            input |-> <<>>, radius |-> 0]
Never   == -1        \* no location-triggered matching has run yet
NoStart == [fail |-> "none", row |-> "none", open |-> FALSE]

\* ------------------------------------------------------------- helpers
IsOpen(b) == b.status \in OpenStatuses /\ b.technicianId = Null

\* new Date(): a logical clock that advances with every committed assignment
Now == 1 + Cardinality({j \in Jobs : bookings[j].technicianId # Null})

\* ServiceBooking.findOne({technicianId, status: {$in: active}}) on a view bk
HasActiveJob(bk, t) ==
    \E j \in Jobs : bk[j].technicianId = t /\ bk[j].status \in ActiveStatuses

\* another transaction holds an uncommitted write on booking j
LockedByOther(c, j) ==
    \E d \in Calls : d # c /\ arg[d].job = j /\ pend[d].job # NoBooking

\* part_000 checkTechnicianActivation: KYC approved, bank verified, training done
checkTechnicianActivation_p0(t) ==
    /\ technicians[t].verificationStatus = "approved"
    /\ technicians[t].bankVerified
    /\ technicians[t].trainingCompleted

\* part_000 171: workStatus approved and online
Eligible(t) == technicians[t].workStatus = "approved" /\ technicians[t].isOnline

InTx(c) == pc[c] \in {"activeJob", "findBroadcast", "findTechnician", "cas",
                      "updateOne", "findOthers", "updateMany", "commit"}

\* request slots are taken in order (the slots are interchangeable)
SlotFree(c) == IF c = 1 THEN TRUE ELSE pc[c - 1] # "idle"

\* abort/commit done, response sent, finally: endSession
Finish(c, r) ==
    /\ pc'   = [pc EXCEPT ![c] = "done"]
    /\ resp' = [resp EXCEPT ![c] = r]
    /\ snap' = [snap EXCEPT ![c] = NoSnap]
    /\ pend' = [pend EXCEPT ![c] = NoPend]

Goto(c, l) ==
    /\ pc' = [pc EXCEPT ![c] = l]
    /\ UNCHANGED resp

\* The snapshot keeps the documents the handler reads later in the transaction:
\* the booking, the booking's broadcast rows and (part_000 only) the profile.
NoProfile == [none |-> TRUE]

TakeSnapshot(c) ==
    [booking |-> bookings[arg[c].job],
     rows    |-> broadcasts[arg[c].job],
     profile |-> IF arg[c].handler = "part_000" THEN technicians[arg[c].tech]
                                                 ELSE NoProfile]

\* What held when the request arrived: the first accept precondition of
\* spec 4.4 that fails (busy, not_offered, ineligible, else none), the state of
\* the technician's broadcast row, and whether the booking was open.
StartFacts(t, j) ==
    IF t = Null THEN NoStart
    ELSE [fail |-> IF HasActiveJob(bookings, t) THEN "busy"
                   ELSE IF broadcasts[j][t] # "sent" THEN "not_offered"
                   ELSE IF ~Eligible(t) THEN "ineligible"
                   ELSE "none",
          row  |-> broadcasts[j][t],
          open |-> IsOpen(bookings[j])]

\* ------------------------------------------------------- geometry
\* Points lie on a small grid, coordinates in km; the distance of the
\* spherical model ($centerSphere, $geoNear spherical: true) is replaced by
\* the plane's, compared through its square.
Coords == {10 * k : k \in 0..MaxCoord}
Points == [lng : Coords, lat : {0, 10}]

MyJobsRadiusKm  == 10     \* part_000 99: 10000 / 6378100
NearbyDefaultKm == 20     \* part_000 275: 20000

Dist2(p, q) == (p.lng - q.lng) * (p.lng - q.lng) + (p.lat - q.lat) * (p.lat - q.lat)

\* spec 4.2: a job without a location is radius-exempt; a located job is in
\* range of a known point when it is no farther than the radius
InRange(p, j, r) ==
    \/ jobLocation[j] = NoPoint
    \/ p # NoPoint /\ Dist2(p, jobLocation[j]) <= r * r

\* the jobs of S in ascending distance from p (ties: lower id first)
RECURSIVE SortByDistance(_, _)
SortByDistance(S, p) ==
    IF S = {} THEN <<>>
    ELSE LET j == CHOOSE a \in S : \A b \in S :
                     \/ Dist2(p, jobLocation[a]) < Dist2(p, jobLocation[b])
                     \/ Dist2(p, jobLocation[a]) = Dist2(p, jobLocation[b]) /\ a <= b
         IN <<j>> \o SortByDistance(S \ {j}, p)

\* ------------------------------------------------- request parameters
\* A coordinate as it reaches a handler from the query string or the JSON
\* body: missing, null, an empty string, a non-numeric string, a numeric
\* string, or a number.
ParamKinds == {"absent", "null", "empty", "text", "numeric_string", "number"}
Absent == [kind |-> "absent", value |-> 0]
Num(n) == [kind |-> "number", value |-> n]
Str(n) == [kind |-> "numeric_string", value |-> n]

\* JavaScript Number(x): undefined and "abc" give NaN, null and "" give 0
ToNumber(x) ==
    CASE x.kind \in {"number", "numeric_string"} -> [finite |-> TRUE, value |-> x.value]
      [] x.kind \in {"null", "empty"}             -> [finite |-> TRUE, value |-> 0]
      [] OTHER                                     -> [finite |-> FALSE, value |-> 0]

\* JavaScript Number.isFinite(x): true for numbers only, no conversion
IsFiniteNumber(x) == x.kind = "number"

\* ------------------------------------------- eligibility (spec 4.1, 4.2)
\* Utils/technicianEligibility.js: the ordered checklist; every failing
\* condition appends its reason code, none stops the evaluation
ReasonCodes == <<"kyc", "bank", "training", "work_status", "offline", "active_job">>

ConditionHolds(code, t) ==
    CASE code = "kyc"         -> technicians[t].verificationStatus = "approved"
      [] code = "bank"        -> technicians[t].bankVerified
      [] code = "training"    -> technicians[t].trainingCompleted
      [] code = "work_status" -> technicians[t].workStatus = "approved"
      [] code = "offline"     -> technicians[t].isOnline
      [] code = "active_job"  -> ~HasActiveJob(bookings, t)

Range(q) == {q[i] : i \in 1..Len(q)}

RECURSIVE CollectReasons(_, _)
CollectReasons(t, i) ==
    IF i = 0 THEN <<>>
    ELSE IF ConditionHolds(ReasonCodes[i], t)
           THEN CollectReasons(t, i - 1)
           ELSE Append(CollectReasons(t, i - 1), ReasonCodes[i])

\* variant: the active-job lookup is left out of the checklist
getTechnicianJobEligibility_NoActiveJob(t, lookupFails) ==
    IF lookupFails
      THEN [eligible |-> FALSE, reasons |-> <<"error">>]
      ELSE LET r == CollectReasons(t, Len(ReasonCodes) - 1)
           IN [eligible |-> r = <<>>, reasons |-> r]

\* variant: the checklist stops at the first failing condition
getTechnicianJobEligibility_ShortCircuit(t, lookupFails) ==
    IF lookupFails
      THEN [eligible |-> FALSE, reasons |-> <<"error">>]
      ELSE LET r == CollectReasons(t, Len(ReasonCodes))
           IN [eligible |-> r = <<>>,
               reasons  |-> IF r = <<>> THEN r ELSE <<Head(r)>>]

\* a failed lookup is answered as not eligible with the error as the reason
getTechnicianJobEligibility(t, lookupFails) ==
    IF lookupFails
      THEN [eligible |-> FALSE, reasons |-> <<"error">>]
      ELSE LET r == CollectReasons(t, Len(ReasonCodes))
           IN [eligible |-> r = <<>>, reasons |-> r]

\* variant: the selector does not look at the technician's active job
findCandidateTechnicians_IgnoresBusy(j) ==
    {t \in Techs :
       /\ Range(getTechnicianJobEligibility(t, FALSE).reasons) \subseteq {"active_job"}
       /\ InRange(location[t], j, NearbyDefaultKm)}

\* variant: the selector trusts the stored profile and skips the online check
findCandidateTechnicians_IgnoresOffline(j) ==
    {t \in Techs :
       /\ Range(getTechnicianJobEligibility(t, FALSE).reasons) \subseteq {"offline"}
       /\ InRange(location[t], j, NearbyDefaultKm)}

\* Utils/technicianMatching.js: the candidates for a job are the technicians
\* who pass the evaluator when the selection runs and have the job in range
findCandidateTechnicians(j) ==
    {t \in Techs : /\ getTechnicianJobEligibility(t, FALSE).eligible
                    /\ InRange(location[t], j, NearbyDefaultKm)}

\* ------------------------------------------------------------- Init
\* nobody has a stored point and no location update has been made
NoGeo ==
    /\ location = [t \in Techs |-> NoPoint]
    /\ jobLocation = [j \in Jobs |-> NoPoint]
    /\ lastMatchAt = [t \in Techs |-> Never]
    /\ clock = 0

\* ------------------------------------------------- wallet and ratings
\* part_001 174: MIN_WITHDRAWAL_AMOUNT when the environment sets none
MinWithdrawal == 500
\* what every technician has earned before the requests modelled here
InitialBalance == 1000

NoWithdraw == [status |-> "none", technicianId |-> Null, amount |-> 0,
               adminNote |-> "none"]
NoOp == [kind |-> "none", pc |-> "idle", who |-> Null, id |-> 0, amount |-> 0,
         type |-> "none", seen |-> 0]

\* ServiceBooking.customerId: user j has booked job j (the last user the
\* remaining jobs)
CustomerOf(j) == IF j <= NumUsers THEN j ELSE NumUsers

\* no wallet or rating request has arrived yet
NoSide ==
    /\ walletBalance = [t \in Techs |-> InitialBalance]
    /\ withdrawRequests = [i \in WithdrawIds |-> NoWithdraw]
    /\ walletTransactions = {}
    /\ ratings = {}
    /\ ops = [w \in Ops |-> NoOp]

InitProfile == [verificationStatus |-> "approved", bankVerified |-> TRUE,
                trainingCompleted |-> TRUE, workStatus |-> "approved",
                isOnline |-> TRUE]

Init ==
    /\ \E s \in OpenStatuses :
          bookings = [j \in Jobs |->
                        IF j = 1
                          THEN [status |-> s, technicianId |-> Null, assignedAt |-> 0]
                          ELSE [status |-> "accepted", technicianId |-> j - 1,
                                assignedAt |-> 0]]
    /\ broadcasts = [j \in Jobs |-> [t \in Techs |->
                        IF j = 1 THEN "none"
                        ELSE IF t = j - 1 THEN "accepted" ELSE "expired"]]
    /\ technicians = [t \in Techs |-> InitProfile]
    /\ pc = [c \in Calls |-> "idle"]
    /\ arg = [c \in Calls |-> NoArg]
    /\ snap = [c \in Calls |-> NoSnap]
    /\ pend = [c \in Calls |-> NoPend]
    /\ others = [c \in Calls |-> {}]
    /\ resp = [c \in Calls |-> NoResp]
    /\ atStart = [c \in Calls |-> NoStart]
    /\ notified = {}
    /\ docs = [j \in Jobs |-> [t \in Techs |->
                  IF broadcasts[j][t] = "none" THEN 0 ELSE 1]]
    /\ view = NoView
    /\ NoSide
    /\ NoGeo

\* ===================== technicianBroadcastController.js: respondToJob ====
\* a status that is not a string (a number, an object): it has no toLowerCase
NonString == "non_string"

\* lines 75-81: startSession, startTransaction, read params;
\* (status || response || "").toLowerCase() throws a TypeError for a truthy
\* status that is not a string: catch, abort, 500
respondToJob_Begin(c, t, j, a) ==
    /\ pc[c] = "idle"
    /\ SlotFree(c)
    /\ arg' = [arg EXCEPT ![c] = [handler |-> "controller", tech |-> t, job |-> j, act |-> a]]
    /\ atStart' = [atStart EXCEPT ![c] = StartFacts(t, j)]
    /\ IF a = NonString
         THEN Finish(c, R_TypeError)
         ELSE IF t = Null
                THEN \* lines 82-85: abort, 401
                     Finish(c, R_Unauthorized)
                ELSE /\ Goto(c, "activeJob")
                     /\ UNCHANGED <<snap, pend>>
    /\ UNCHANGED <<storeVars, others, notified, auxVars>>

\* lines 87-98: first read of the transaction opens its snapshot
respondToJob_ActiveJob(c) ==
    /\ pc[c] = "activeJob"
    /\ IF HasActiveJob(bookings, arg[c].tech)
         THEN Finish(c, R_Busy)
         ELSE /\ Goto(c, "findBroadcast")
              /\ snap' = [snap EXCEPT ![c] = TakeSnapshot(c)]
              /\ UNCHANGED pend
    /\ UNCHANGED <<storeVars, arg, others, atStart, notified, auxVars>>

\* variant: the broadcast lookup without the status filter
respondToJob_FindBroadcast_AnyStatus(c) ==
    /\ pc[c] = "findBroadcast"
    /\ arg[c].handler = "controller"
    /\ IF snap[c].rows[arg[c].tech] = "none"
         THEN Finish(c, R_NotOffered)
         ELSE IF arg[c].act \notin AcceptWords
                THEN Finish(c, R_Invalid)
                ELSE /\ Goto(c, "cas")
                     /\ UNCHANGED <<snap, pend>>
    /\ UNCHANGED <<storeVars, arg, others, atStart, notified, auxVars>>

\* lines 100-114: the technician's sent broadcast, then the status word
respondToJob_FindBroadcast(c) ==
    /\ pc[c] = "findBroadcast"
    /\ arg[c].handler = "controller"
    /\ IF snap[c].rows[arg[c].tech] # "sent"
         THEN Finish(c, R_NotOffered)
         ELSE IF arg[c].act \notin AcceptWords
                THEN Finish(c, R_Invalid)
                ELSE /\ Goto(c, "cas")
                     /\ UNCHANGED <<snap, pend>>
    /\ UNCHANGED <<storeVars, arg, others, atStart, notified, auxVars>>

\* variant: read-then-write, the booking is judged on the earlier read alone
respondToJob_FindOneAndUpdate_ReadThenWrite(c) ==
    /\ pc[c] = "cas"
    /\ IF ~IsOpen(snap[c].booking)
         THEN Finish(c, R_AlreadyTaken)
         ELSE /\ pend' = [pend EXCEPT ![c].job =
                            [status |-> "accepted", technicianId |-> arg[c].tech,
                             assignedAt |-> Now]]
              /\ Goto(c, "updateOne")
              /\ UNCHANGED snap
    /\ UNCHANGED <<storeVars, arg, others, atStart, notified, auxVars>>

\* variant: the update sets the status and forgets the technician
respondToJob_FindOneAndUpdate_StatusOnly(c) ==
    /\ pc[c] = "cas"
    /\ LET j == arg[c].job
       IN IF ~IsOpen(snap[c].booking)
            THEN Finish(c, R_AlreadyTaken)
            ELSE IF bookings[j] # snap[c].booking \/ LockedByOther(c, j)
                   THEN Finish(c, R_WriteConflict)
                   ELSE /\ pend' = [pend EXCEPT ![c].job =
                                      [status |-> "accepted", technicianId |-> Null,
                                       assignedAt |-> Now]]
                        /\ Goto(c, "updateOne")
                        /\ UNCHANGED snap
    /\ UNCHANGED <<storeVars, arg, others, atStart, notified, auxVars>>

\* variant: a booking already held by the same technician matches the filter
\* again, so a duplicate of the technician's own request re-stamps it
respondToJob_FindOneAndUpdate_ReacceptOwn(c) ==
    /\ pc[c] = "cas"
    /\ LET j == arg[c].job
           t == arg[c].tech
       IN IF ~IsOpen(snap[c].booking)
            THEN Finish(c, R_AlreadyTaken)
            ELSE IF \/ bookings[j] # snap[c].booking /\ bookings[j].technicianId # t
                    \/ \E d \in Calls : d # c /\ arg[d].job = j /\ arg[d].tech # t
                                          /\ pend[d].job # NoBooking
                   THEN Finish(c, R_WriteConflict)
                   ELSE /\ pend' = [pend EXCEPT ![c].job =
                                      [status |-> "accepted", technicianId |-> t,
                                       assignedAt |-> Now]]
                        /\ Goto(c, "updateOne")
                        /\ UNCHANGED snap
    /\ UNCHANGED <<storeVars, arg, others, atStart, notified, auxVars>>

\* lines 116-125 (part_000 177-185): the conditional update
respondToJob_FindOneAndUpdate(c) ==
    /\ pc[c] = "cas"
    /\ LET j == arg[c].job
           t == arg[c].tech
       IN IF ~IsOpen(snap[c].booking)
            THEN \* filter matches nothing: booking is null
                 /\ Finish(c, R_AlreadyTaken)
            ELSE IF bookings[j] # snap[c].booking \/ LockedByOther(c, j)
                   THEN \* WriteConflict thrown -> catch -> abort -> 500
                        /\ Finish(c, R_WriteConflict)
                          ELSE /\ pend' = [pend EXCEPT ![c].job =
                                      [status |-> "accepted", technicianId |-> t,
                                       assignedAt |-> Now]]
                        /\ Goto(c, "updateOne")
                        /\ UNCHANGED snap
    /\ UNCHANGED <<storeVars, arg, others, atStart, notified, auxVars>>

\* line 127 (part_000 187-191): own broadcast row -> accepted
respondToJob_UpdateOne(c) ==
    /\ pc[c] = "updateOne"
    /\ pend' = [pend EXCEPT ![c].rows = @ \cup {<<arg[c].tech, "accepted">>}]
    /\ Goto(c, IF arg[c].handler = "controller" THEN "findOthers" ELSE "updateMany")
    /\ UNCHANGED <<storeVars, arg, snap, others, atStart, notified, auxVars>>

\* lines 129-134: the other technicians whose row is still sent
respondToJob_FindOthers(c) ==
    /\ pc[c] = "findOthers"
    /\ others' = [others EXCEPT ![c] =
                    {u \in Techs : u # arg[c].tech
                                   /\ snap[c].rows[u] = "sent"}]
    /\ Goto(c, "updateMany")
    /\ UNCHANGED <<storeVars, arg, snap, pend, atStart, notified, auxVars>>

\* variant: the other rows of the booking are deleted instead of expired
respondToJob_UpdateMany_Deletes(c) ==
    /\ pc[c] = "updateMany"
    /\ pend' = [pend EXCEPT ![c].rows = @ \cup
                  {<<u, "none">> : u \in {v \in Techs : v # arg[c].tech
                        /\ snap[c].rows[v] # "none"}}]
    /\ Goto(c, "commit")
    /\ UNCHANGED <<storeVars, arg, snap, others, atStart, notified, auxVars>>

\* line 136 (part_000 193-197): every other row of the booking -> expired
respondToJob_UpdateMany(c) ==
    /\ pc[c] = "updateMany"
    /\ pend' = [pend EXCEPT ![c].rows = @ \cup
                  {<<u, "expired">> : u \in {v \in Techs : v # arg[c].tech
                        /\ snap[c].rows[v] # "none"}}]
    /\ Goto(c, "commit")
    /\ UNCHANGED <<storeVars, arg, snap, others, atStart, notified, auxVars>>

\* line 138 (part_000 198-199): commitTransaction publishes the writes
respondToJob_Commit(c) ==
    /\ pc[c] = "commit"
    /\ LET j == arg[c].job
       IN /\ bookings' = [bookings EXCEPT ![j] = pend[c].job]
          /\ broadcasts' = [broadcasts EXCEPT ![j] =
                 [u \in Techs |-> IF \E w \in pend[c].rows : w[1] = u
                                    THEN (CHOOSE w \in pend[c].rows : w[1] = u)[2]
                                    ELSE @[u]]]
    /\ IF arg[c].handler = "controller"
         THEN /\ pc' = [pc EXCEPT ![c] = "notify"]
              /\ snap' = [snap EXCEPT ![c] = NoSnap]
              /\ pend' = [pend EXCEPT ![c] = NoPend]
              /\ UNCHANGED resp
         ELSE Finish(c, R_Ok)
    /\ UNCHANGED <<technicians, arg, others, atStart, notified, auxVars>>

\* variant: a failed notification reopens the booking
respondToJob_Notify_Unwinds(c, ok) ==
    /\ pc[c] = "notify"
    /\ IF ok
         THEN /\ notified' = notified \cup
                    {[job |-> arg[c].job, tech |-> arg[c].tech, losers |-> others[c]]}
              /\ pc' = [pc EXCEPT ![c] = "done"]
              /\ resp' = [resp EXCEPT ![c] = R_Ok]
              /\ UNCHANGED bookings
         ELSE /\ pc' = [pc EXCEPT ![c] = "done"]
              /\ resp' = [resp EXCEPT ![c] = R_NotifyError]
              /\ bookings' = [bookings EXCEPT ![arg[c].job] =
                                [status |-> "broadcasted", technicianId |-> Null,
                                 assignedAt |-> 0]]
              /\ UNCHANGED notified
    /\ UNCHANGED <<broadcasts, technicians, arg, snap, pend, others, atStart, auxVars>>

\* lines 140-151: notifications after commit, then 200; a throw lands in catch
respondToJob_Notify(c, ok) ==
    /\ pc[c] = "notify"
    /\ IF ok
         THEN /\ notified' = notified \cup
                    {[job |-> arg[c].job, tech |-> arg[c].tech, losers |-> others[c]]}
              /\ pc' = [pc EXCEPT ![c] = "done"]
              /\ resp' = [resp EXCEPT ![c] = R_Ok]
         ELSE \* lines 152-155: inTransaction() is false, nothing to abort
              /\ pc' = [pc EXCEPT ![c] = "done"]
              /\ resp' = [resp EXCEPT ![c] = R_NotifyError]
              /\ UNCHANGED notified
    /\ UNCHANGED <<storeVars, arg, snap, pend, others, atStart, auxVars>>

\* lines 152-157 (part_000 200-205): a store operation throws inside the
\* transaction.  The controller aborts if inTransaction() and answers 500.
\* part_000 calls abortTransaction unconditionally: when the operation that
\* threw is commitTransaction the session has left the in-progress state,
\* abortTransaction throws in turn inside the catch, the 500 of line 202 is
\* never sent and the exception leaves the handler after finally has ended
\* the session.
respondToJob_Catch(c) ==
    /\ InTx(c)
    /\ IF arg[c].handler = "part_000" /\ pc[c] = "commit"
         THEN /\ pc' = [pc EXCEPT ![c] = "unanswered"]
              /\ snap' = [snap EXCEPT ![c] = NoSnap]
              /\ pend' = [pend EXCEPT ![c] = NoPend]
              /\ UNCHANGED resp
         ELSE Finish(c, IF pend[c] = NoPend THEN R_StoreError ELSE R_Aborted)
    /\ UNCHANGED <<storeVars, arg, others, atStart, notified, auxVars>>

\* ============================== part_000: respondToJob (earlier handler) ==
\* part_000 137-142: status is read from the body and never looked at again
respondToJob_p0_Begin(c, t, j, a) ==
    /\ pc[c] = "idle"
    /\ SlotFree(c)
    /\ arg' = [arg EXCEPT ![c] = [handler |-> "part_000", tech |-> t, job |-> j, act |-> a]]
    /\ atStart' = [atStart EXCEPT ![c] = StartFacts(t, j)]
    /\ Goto(c, "activation")
    /\ UNCHANGED <<storeVars, snap, pend, others, notified, auxVars>>

\* part_000 144-152: activation is read outside the session
respondToJob_p0_Activation(c) ==
    /\ pc[c] = "activation"
    /\ IF checkTechnicianActivation_p0(arg[c].tech)
         THEN /\ Goto(c, "findBroadcast")
              /\ UNCHANGED <<snap, pend>>
         ELSE Finish(c, R_Inactive)
    /\ UNCHANGED <<storeVars, arg, others, atStart, notified, auxVars>>

\* part_000 154-166: first read of the transaction opens its snapshot
respondToJob_p0_FindBroadcast(c) ==
    /\ pc[c] = "findBroadcast"
    /\ arg[c].handler = "part_000"
    /\ IF broadcasts[arg[c].job][arg[c].tech] # "sent"
         THEN Finish(c, R_NotOffered)
         ELSE /\ Goto(c, "findTechnician")
              /\ snap' = [snap EXCEPT ![c] = TakeSnapshot(c)]
              /\ UNCHANGED pend
    /\ UNCHANGED <<storeVars, arg, others, atStart, notified, auxVars>>

\* part_000 168-174: workStatus approved and online
respondToJob_p0_FindTechnician(c) ==
    /\ pc[c] = "findTechnician"
    /\ LET p == snap[c].profile
       IN IF p.workStatus # "approved" \/ ~p.isOnline
            THEN Finish(c, R_Ineligible)
            ELSE /\ Goto(c, "cas")
                 /\ UNCHANGED <<snap, pend>>
    /\ UNCHANGED <<storeVars, arg, others, atStart, notified, auxVars>>

\* ============================================ technician.js (profile) ====
\* technician.js 544-559, 588: the technician toggles availability.isOnline
updateTechnician(t, online) ==
    /\ online => /\ technicians[t].trainingCompleted
                 /\ technicians[t].workStatus = "approved"
                 /\ technicians[t].verificationStatus = "approved"
    /\ technicians[t].isOnline # online
    /\ technicians' = [technicians EXCEPT ![t].isOnline = online]
    /\ UNCHANGED <<bookings, broadcasts, callVars, notified, auxVars>>

\* Utils/technicianMatching.js broadcastPendingJobsToTechnician (spec 4.2,
\* 4.3): every open job in range not yet offered to t gets a sent row; the
\* ledger after
broadcastPendingJobsToTechnician(t) ==
    [j \in Jobs |->
       IF /\ IsOpen(bookings[j])
          /\ InRange(location[t], j, NearbyDefaultKm)
          /\ broadcasts[j][t] = "none"
         THEN [broadcasts[j] EXCEPT ![t] = "sent"]
         ELSE broadcasts[j]]

\* technician.js 1505-1538 (later updateTechnician): going online asks the
\* evaluator and is refused with 403 while a reason other than offline stands;
\* a request with isOnline true then awaits the proactive broadcast
updateTechnician_v2(t, online) ==
    LET barriers == Range(getTechnicianJobEligibility(t, FALSE).reasons) \ {"offline"}
    IN /\ (online /\ ~technicians[t].isOnline) => barriers = {}
       /\ technicians' = [technicians EXCEPT ![t].isOnline = online]
       /\ IF online /\ barriers = {}
            THEN /\ broadcasts' = broadcastPendingJobsToTechnician(t)
                 /\ docs' = [j \in Jobs |-> [u \in Techs |->
                               IF broadcasts'[j][u] # broadcasts[j][u]
                                 THEN docs[j][u] + 1 ELSE docs[j][u]]]
            ELSE UNCHANGED <<broadcasts, docs>>
       /\ UNCHANGED <<bookings, callVars, notified, view, geoVars, sideVars>>

\* technician.js 38: the values updateTechnicianStatus accepts as workStatus
TECHNICIAN_STATUSES == {"pending", "trained", "approved", "suspended", "deleted"}

\* a body field that was not sent (undefined)
NotSent == "undefined"

\* technician.js 624-693: the owner sets trainingCompleted ("true", "false" or
\* not sent) and workStatus (one of TECHNICIAN_STATUSES or not sent).
\* trainingCompleted true moves workStatus to trained; a workStatus that was
\* sent is written after that; suspended forces offline; then save
updateTechnicianStatus(t, trainingCompleted, workStatus) ==
    LET afterTraining ==
            IF trainingCompleted = NotSent THEN technicians[t]
            ELSE [technicians[t] EXCEPT
                    !.trainingCompleted = (trainingCompleted = "true"),
                    !.workStatus = IF trainingCompleted = "true" THEN "trained" ELSE @]
        afterStatus ==
            IF workStatus = NotSent THEN afterTraining
            ELSE [afterTraining EXCEPT
                    !.workStatus = workStatus,
                    !.isOnline = IF workStatus = "suspended" THEN FALSE ELSE @]
    IN /\ technicians' = [technicians EXCEPT ![t] = afterStatus]
       /\ UNCHANGED <<bookings, broadcasts, callVars, notified, auxVars>>

\* technician.js 800-869: the owner sets trainingCompleted (a boolean);
\* setting it to false forces an online technician offline
updateTechnicianTraining(t, trainingCompleted) ==
    /\ technicians' = [technicians EXCEPT
                          ![t].trainingCompleted = trainingCompleted,
                          ![t].isOnline = IF ~trainingCompleted THEN FALSE ELSE @]
    /\ UNCHANGED <<bookings, broadcasts, callVars, notified, auxVars>>

\* ===================================== collaborators outside src/ ========
\* Candidate selector + ledger (spec 4.2, 4.3, 4.5): an open, unassigned job is
\* offered to an eligible technician who has no row for it yet
recordBroadcast(j, t) ==
    /\ IsOpen(bookings[j])
    /\ broadcasts[j][t] = "none"
    /\ t \in findCandidateTechnicians(j)
    /\ broadcasts' = [broadcasts EXCEPT ![j][t] = "sent"]
    /\ docs' = [docs EXCEPT ![j][t] = @ + 1]
    /\ UNCHANGED <<bookings, technicians, callVars, notified, view, geoVars, sideVars>>

\* variant: the ledger inserts without looking for an existing row
recordBroadcast_Again_Inserts(j, t) ==
    /\ IsOpen(bookings[j])
    /\ broadcasts[j][t] # "none"
    /\ t \in findCandidateTechnicians(j)
    /\ docs' = [docs EXCEPT ![j][t] = @ + 1]
    /\ view' = [NoView EXCEPT !.op = "recordBroadcast", !.tech = t, !.jobs = {j}]
    /\ UNCHANGED <<storeVars, callVars, notified, geoVars, sideVars>>

\* Broadcast ledger (spec 4.3): recordBroadcast for a pair that already has a
\* row, as a second matching pass (location rematch, going online) issues it:
\* the row is kept as it is and no document is added
recordBroadcast_Again(j, t) ==
    /\ IsOpen(bookings[j])
    /\ broadcasts[j][t] # "none"
    /\ t \in findCandidateTechnicians(j)
    /\ view' = [NoView EXCEPT !.op = "recordBroadcast", !.tech = t, !.jobs = {j}]
    /\ UNCHANGED <<storeVars, callVars, notified, docs, geoVars, sideVars>>

\* Job lifecycle after assignment (spec 3): accepted -> ... -> completed.  The
\* travel statuses on_the_way and reached act like accepted in every operation
\* modelled here (they are members of ActiveStatuses), so work starts directly.
NextStatus(s) ==
    CASE s = "accepted"    -> "in_progress"
      [] s = "on_the_way"  -> "reached"
      [] s = "reached"     -> "in_progress"
      [] s = "in_progress" -> "completed"
      [] OTHER             -> s

progressJob(j) ==
    /\ bookings[j].status \in ActiveStatuses
    /\ bookings' = [bookings EXCEPT ![j].status = NextStatus(@)]
    /\ UNCHANGED <<broadcasts, technicians, callVars, notified, auxVars>>

\* =================================================== read-only operations ==
\* how the evaluator's lookups end: normally, with a failed lookup that it
\* reports itself, or with an exception that leaves it
Modes == {"ok", "lookup_error", "throws"}

\* the evaluator called on its own
evaluate(t, lookupFails) ==
    /\ LET e == getTechnicianJobEligibility(t, lookupFails)
       IN view' = [NoView EXCEPT !.op = "evaluate", !.tech = t,
                                 !.fail = lookupFails, !.ok = e.eligible,
                                 !.reasons = Range(e.reasons)]
    /\ UNCHANGED <<storeVars, callVars, notified, docs, geoVars, sideVars>>

\* variant: no try/catch around the evaluator, its exception leaves the check
checkTechnicianActivation_NoCatch(t, mode) ==
    IF mode = "throws"
      THEN [isActive |-> FALSE, reasons |-> {}, thrown |-> TRUE]
      ELSE LET e == getTechnicianJobEligibility(t, mode = "lookup_error")
               activationReasons == Range(e.reasons) \ {"offline"}
           IN IF ~e.eligible /\ activationReasons # {}
                THEN [isActive |-> FALSE, reasons |-> activationReasons,
                      thrown |-> FALSE]
                ELSE [isActive |-> TRUE, reasons |-> {}, thrown |-> FALSE]

\* technicianBroadcastController.js 10-36; thrown: an exception leaves the check
checkTechnicianActivation(t, mode) ==
    IF mode = "throws"
      THEN \* lines 30-35
           [isActive |-> FALSE, reasons |-> {}, thrown |-> FALSE]
      ELSE LET e == getTechnicianJobEligibility(t, mode = "lookup_error")
               activationReasons == Range(e.reasons) \ {"offline"}
           IN IF ~e.eligible /\ activationReasons # {}
                THEN [isActive |-> FALSE, reasons |-> activationReasons,
                      thrown |-> FALSE]
                ELSE [isActive |-> TRUE, reasons |-> {}, thrown |-> FALSE]

activationView(t, mode) ==
    /\ LET a == checkTechnicianActivation(t, mode)
       IN view' = [NoView EXCEPT !.op = "activation", !.tech = t,
                                 !.fail = (mode # "ok"), !.ok = a.isActive,
                                 !.reasons = a.reasons,
                                 !.status = IF a.thrown THEN 500 ELSE 0]
    /\ UNCHANGED <<storeVars, callVars, notified, docs, geoVars, sideVars>>

\* part_000 9-54 called on its own; a throwing lookup lands in lines 48-53
activationView_p0(t, throws) ==
    /\ view' = [NoView EXCEPT !.op = "activation_p0", !.tech = t,
                              !.fail = throws,
                              !.ok = (~throws /\ checkTechnicianActivation_p0(t))]
    /\ UNCHANGED <<storeVars, callVars, notified, docs, geoVars, sideVars>>

\* fetchTechnicianJobsInternal (spec 4.2, 6, myJobs): the open jobs offered to
\* t that are in range of the passive feed
fetchTechnicianJobsInternal(t) ==
    {j \in Jobs : /\ broadcasts[j][t] = "sent"
                   /\ IsOpen(bookings[j])
                   /\ InRange(location[t], j, MyJobsRadiusKm)}

\* technicianBroadcastController.js 39-71
getMyJobs(t, mode) ==
    /\ view' =
         IF t = Null
           THEN [NoView EXCEPT !.op = "getMyJobs", !.status = 401]
         ELSE IF HasActiveJob(bookings, t)
           THEN [NoView EXCEPT !.op = "getMyJobs", !.tech = t, !.ok = TRUE,
                               !.status = 200]
         ELSE IF checkTechnicianActivation(t, mode).thrown
           THEN \* lines 67-70
                [NoView EXCEPT !.op = "getMyJobs", !.tech = t, !.fail = TRUE,
                               !.status = 500]
         ELSE IF ~checkTechnicianActivation(t, mode).isActive
           THEN [NoView EXCEPT !.op = "getMyJobs", !.tech = t, !.ok = TRUE,
                               !.fail = (mode # "ok"), !.status = 200]
         ELSE [NoView EXCEPT !.op = "getMyJobs", !.tech = t, !.ok = TRUE,
                             !.fail = (mode # "ok"), !.status = 200,
                             !.jobs = fetchTechnicianJobsInternal(t)]
    /\ UNCHANGED <<storeVars, callVars, notified, docs, geoVars, sideVars>>

\* part_000 57-132; lines 86-104: a technician with a stored point gets the
\* jobs without a location and those within 10 km, one without gets them all
getMyJobs_p0(t) ==
    /\ view' =
         IF t = Null
           THEN [NoView EXCEPT !.op = "getMyJobs_p0", !.status = 401]
         ELSE IF ~checkTechnicianActivation_p0(t)
           THEN [NoView EXCEPT !.op = "getMyJobs_p0", !.tech = t, !.ok = TRUE,
                               !.status = 200]
         ELSE [NoView EXCEPT !.op = "getMyJobs_p0", !.tech = t, !.ok = TRUE,
                             !.status = 200,
                             !.jobs = {j \in Jobs :
                                         /\ broadcasts[j][t] = "sent"
                                         /\ bookings[j].status = "broadcasted"
                                         /\ bookings[j].technicianId = Null
                                         /\ \/ location[t] = NoPoint
                                            \/ InRange(location[t], j, MyJobsRadiusKm)}]
    /\ UNCHANGED <<storeVars, callVars, notified, docs, geoVars, sideVars>>

\* variant: the result keeps the order of the broadcast rows
NearbyOrder_Unsorted(S, p) ==
    IF S = {} THEN <<>>
    ELSE LET RECURSIVE ById(_)
             ById(R) == IF R = {} THEN <<>>
                        ELSE LET j == CHOOSE a \in R : \A b \in R : a >= b
                             IN Append(ById(R \ {j}), j)
         IN ById(S)

\* part_000 278-339: $geoNear yields the matches with their distance, the
\* last stage sorts them by it
NearbyOrder(S, p) == SortByDistance(S, p)

\* part_000 209-354
getNearbyJobs(t, latitude, longitude, radius) ==
    /\ LET lat == ToNumber(latitude)
           lng == ToNumber(longitude)
           explicit == lat.finite /\ lng.finite
           \* lines 234-257
           point == IF explicit THEN [lng |-> lng.value, lat |-> lat.value]
                                ELSE location[t]
           \* line 275
           maxDist == IF radius.kind = "absent" THEN NearbyDefaultKm
                                                ELSE ToNumber(radius).value
           \* lines 278-291: $geoNear returns documents that have a location
           found == {j \in Jobs : /\ broadcasts[j][t] = "sent"
                                  /\ bookings[j].status = "broadcasted"
                                  /\ bookings[j].technicianId = Null
                                  /\ jobLocation[j] # NoPoint
                                  /\ Dist2(point, jobLocation[j]) <= maxDist * maxDist}
       IN view' =
            IF t = Null
              THEN [NoView EXCEPT !.op = "getNearbyJobs", !.status = 401]
            ELSE IF ~checkTechnicianActivation_p0(t)
              THEN [NoView EXCEPT !.op = "getNearbyJobs", !.tech = t,
                                  !.input = <<latitude, longitude>>, !.ok = TRUE,
                                  !.status = 200, !.reasons = {"inactive"}]
            ELSE IF point = NoPoint
              THEN \* lines 250-256
                   [NoView EXCEPT !.op = "getNearbyJobs", !.tech = t,
                                  !.input = <<latitude, longitude>>,
                                  !.status = 400, !.reasons = {"location_unknown"}]
            ELSE IF \A j \in Jobs : broadcasts[j][t] # "sent"
              THEN \* lines 267-273
                   [NoView EXCEPT !.op = "getNearbyJobs", !.tech = t,
                                  !.input = <<latitude, longitude>>, !.ok = TRUE,
                                  !.status = 200, !.point = point]
            ELSE [NoView EXCEPT !.op = "getNearbyJobs", !.tech = t,
                                !.input = <<latitude, longitude>>, !.ok = TRUE,
                                !.status = 200, !.point = point,
                                !.radius = maxDist,
                                !.jobs = found,
                                !.list = NearbyOrder(found, point)]
    /\ UNCHANGED <<storeVars, callVars, notified, docs, geoVars, sideVars>>

\* ============================================ technician.js (location) ====
\* spec 4.5: the shortest time between two matchings of one technician
Cooldown == 2

\* variant: matching may run on every update
MatchingAllowed_NoCooldown(t) == TRUE

\* Utils/technicianLocation.js (spec 4.5): matching is skipped while the
\* technician's last one is younger than the cooldown
MatchingAllowed(t) ==
    lastMatchAt[t] = Never \/ clock - lastMatchAt[t] >= Cooldown

\* variant: jobs are matched whatever their status
MatchedJobs_AnyStatus(t, p) ==
    IF t \in {u \in Techs : getTechnicianJobEligibility(u, FALSE).eligible}
      THEN {j \in Jobs : InRange(p, j, NearbyDefaultKm)}
      ELSE {}

\* spec 4.2, 4.5: the selector run for technician t at point p: the open jobs
\* in range, if t passes the evaluation
MatchedJobs(t, p) ==
    IF t \in {u \in Techs : getTechnicianJobEligibility(u, FALSE).eligible}
      THEN {j \in Jobs : IsOpen(bookings[j]) /\ InRange(p, j, NearbyDefaultKm)}
      ELSE {}

\* variant: the point is written by the matching pass only
StoredPoint_WhenMatching(t, p) ==
    IF MatchingAllowed(t) THEN p ELSE location[t]

\* spec 4.5: the point is stored unconditionally
StoredPoint(t, p) == p

\* Utils/technicianLocation.js handleLocationUpdate (spec 4.5): store the
\* point, then, unless the cooldown says no, match and record a broadcast
\* for every matched job that has no row for t
handleLocationUpdate(t, p) ==
    LET run == MatchingAllowed(t)
        new == IF run THEN {j \in MatchedJobs(t, p) : broadcasts[j][t] = "none"}
                      ELSE {}
    IN /\ location' = [location EXCEPT ![t] = StoredPoint(t, p)]
       /\ lastMatchAt' = IF run THEN [lastMatchAt EXCEPT ![t] = clock]
                                ELSE lastMatchAt
       /\ broadcasts' = [j \in Jobs |->
                           IF j \in new THEN [broadcasts[j] EXCEPT ![t] = "sent"]
                                        ELSE broadcasts[j]]
       /\ docs' = [j \in Jobs |->
                     IF j \in new THEN [docs[j] EXCEPT ![t] = @ + 1] ELSE docs[j]]
       /\ view' = [NoView EXCEPT !.op = "updateTechnicianLocation", !.tech = t,
                                 !.ok = TRUE, !.status = 200, !.match = run,
                                 !.jobs = new, !.point = p,
                                 !.input = <<Num(p.lat), Num(p.lng)>>]

\* technician.js 12-35
updateTechnicianLocation(t, latitude, longitude) ==
    /\ IF t = Null
         THEN \* lines 17-19
              /\ view' = [NoView EXCEPT !.op = "updateTechnicianLocation",
                                        !.status = 401]
              /\ UNCHANGED <<broadcasts, docs, location, lastMatchAt>>
         ELSE IF ~IsFiniteNumber(latitude) \/ ~IsFiniteNumber(longitude)
           THEN \* lines 20-22
                /\ view' = [NoView EXCEPT !.op = "updateTechnicianLocation",
                                          !.tech = t, !.status = 400,
                                          !.input = <<latitude, longitude>>]
                /\ UNCHANGED <<broadcasts, docs, location, lastMatchAt>>
           ELSE \* lines 24-30
                handleLocationUpdate(t, [lng |-> longitude.value,
                                         lat |-> latitude.value])
    /\ UNCHANGED <<bookings, technicians, callVars, notified, jobLocation, clock,
                   sideVars>>

\* time passes
Tick ==
    /\ clock < MaxTime
    /\ clock' = clock + 1
    /\ UNCHANGED <<storeVars, callVars, notified, docs, view,
                   location, jobLocation, lastMatchAt, sideVars>>

\* ======================================== wallet: part_001, ratingController ==
\* request slots are taken in order (the slots are interchangeable)
OpFree(w) == ops[w] = NoOp /\ (IF w = 1 THEN TRUE ELSE ops[w - 1] # NoOp)

\* the request in slot w has been answered with HTTP status st
Answer(w, st) == [ops[w] EXCEPT !.pc = "done", !.seen = st]

\* WalletTransaction.create: the entry written by the request in slot w;
\* request is the WithdrawRequest the handler was working on (0: none)
Entry(w, t, amount, type, source, note, request) ==
    [op |-> w, technicianId |-> t, amount |-> amount, type |-> type,
     source |-> source, note |-> note, request |-> request]

\* WithdrawRequest.findOne({technicianId, status: "pending"})
PendingOf(t) ==
    {i \in WithdrawIds : /\ withdrawRequests[i].technicianId = t
                         /\ withdrawRequests[i].status = "pending"}

\* the _id of the next WithdrawRequest document
NewWithdrawId == CHOOSE i \in WithdrawIds :
                    /\ withdrawRequests[i] = NoWithdraw
                    /\ \A k \in 1..(i - 1) : withdrawRequests[k] # NoWithdraw

\* part_001 373-406: req.technician was loaded by the isTechnician middleware
\* before the handler runs; the amount is checked against the minimum and
\* against the balance of that copy of the profile
requestWithdraw_Begin(w, t, amount) ==
    /\ OpFree(w)
    /\ Cardinality({v \in Ops : ops[v].kind = "requestWithdraw"}) < MaxWithdraws
    /\ LET op == [NoOp EXCEPT !.kind = "requestWithdraw", !.who = t,
                               !.amount = amount]
       IN ops' = [ops EXCEPT ![w] =
                    IF amount <= 0 \/ amount < MinWithdrawal
                         \/ walletBalance[t] < amount
                      THEN [op EXCEPT !.pc = "done", !.seen = 400]
                      ELSE [op EXCEPT !.pc = "findPending"]]
    /\ UNCHANGED <<storeVars, callVars, notified, docs, view, geoVars,
                   walletVars, ratings>>

\* part_001 408-419: a pending request of the technician stops the request
requestWithdraw_FindPending(w) ==
    /\ ops[w].kind = "requestWithdraw"
    /\ ops[w].pc = "findPending"
    /\ ops' = [ops EXCEPT ![w] =
                 IF PendingOf(ops[w].who) # {} THEN Answer(w, 400)
                                               ELSE [@ EXCEPT !.pc = "transaction"]]
    /\ UNCHANGED <<storeVars, callVars, notified, docs, view, geoVars,
                   walletVars, ratings>>

\* part_001 423-453: withTransaction creates the pending request, takes the
\* amount from the balance ($inc) and writes a debit entry; a write conflict
\* on the profile makes withTransaction run the callback again
requestWithdraw_Transaction(w) ==
    /\ ops[w].kind = "requestWithdraw"
    /\ ops[w].pc = "transaction"
    /\ LET t == ops[w].who
           a == ops[w].amount
           i == NewWithdrawId
       IN /\ withdrawRequests' = [withdrawRequests EXCEPT ![i] =
                [status |-> "pending", technicianId |-> t, amount |-> a,
                 adminNote |-> "none"]]
          /\ walletBalance' = [walletBalance EXCEPT ![t] = @ - a]
          /\ walletTransactions' = walletTransactions \cup
                {Entry(w, t, a, "debit", "withdraw", "request", i)}
          /\ ops' = [ops EXCEPT ![w] = [Answer(w, 200) EXCEPT !.id = i]]
    /\ UNCHANGED <<storeVars, callVars, notified, docs, view, geoVars, ratings>>

\* part_001 488-505: the technician's own pending request is read
cancelMyWithdrawal_Begin(w, t, i) ==
    /\ OpFree(w)
    /\ LET op == [NoOp EXCEPT !.kind = "cancelMyWithdrawal", !.who = t, !.id = i]
           d  == withdrawRequests[i]
       IN ops' = [ops EXCEPT ![w] =
                    IF d.technicianId = t /\ d.status = "pending"
                      THEN [op EXCEPT !.pc = "transaction", !.amount = d.amount]
                      ELSE [op EXCEPT !.pc = "done", !.seen = 404]]
    /\ UNCHANGED <<storeVars, callVars, notified, docs, view, geoVars,
                   walletVars, ratings>>

\* part_001 507-531: withTransaction saves the document read earlier as
\* rejected (save filters on _id alone), gives the amount back and writes a
\* credit entry
cancelMyWithdrawal_Transaction(w) ==
    /\ ops[w].kind = "cancelMyWithdrawal"
    /\ ops[w].pc = "transaction"
    /\ LET t == ops[w].who
           i == ops[w].id
           a == ops[w].amount
       IN /\ withdrawRequests' = [withdrawRequests EXCEPT
                ![i].status = "rejected",
                ![i].adminNote = "Cancelled by technician"]
          /\ walletBalance' = [walletBalance EXCEPT ![t] = @ + a]
          /\ walletTransactions' = walletTransactions \cup
                {Entry(w, t, a, "credit", "adjustment", "refund", i)}
          /\ ops' = [ops EXCEPT ![w] = Answer(w, 200)]
    /\ UNCHANGED <<storeVars, callVars, notified, docs, view, geoVars, ratings>>

\* ratingController.js 490-496: findById, the request must be pending
approveWithdraw_Begin(w, i) ==
    /\ OpFree(w)
    /\ LET op == [NoOp EXCEPT !.kind = "approveWithdraw", !.id = i]
           d  == withdrawRequests[i]
       IN ops' = [ops EXCEPT ![w] =
                    IF d.status # "pending"
                      THEN [op EXCEPT !.pc = "done", !.seen = 400]
                      ELSE [op EXCEPT !.pc = "inc", !.who = d.technicianId,
                                      !.amount = d.amount]]
    /\ UNCHANGED <<storeVars, callVars, notified, docs, view, geoVars,
                   walletVars, ratings>>

\* ratingController.js 498-501: $inc walletBalance by -amount
approveWithdraw_Inc(w) ==
    /\ ops[w].kind = "approveWithdraw"
    /\ ops[w].pc = "inc"
    /\ walletBalance' = [walletBalance EXCEPT ![ops[w].who] = @ - ops[w].amount]
    /\ ops' = [ops EXCEPT ![w].pc = "ledger"]
    /\ UNCHANGED <<storeVars, callVars, notified, docs, view, geoVars,
                   withdrawRequests, walletTransactions, ratings>>

\* ratingController.js 503-509: the debit entry "Withdraw approved"
approveWithdraw_Ledger(w) ==
    /\ ops[w].kind = "approveWithdraw"
    /\ ops[w].pc = "ledger"
    /\ walletTransactions' = walletTransactions \cup
          {Entry(w, ops[w].who, ops[w].amount, "debit", "withdraw", "approved",
                 ops[w].id)}
    /\ ops' = [ops EXCEPT ![w].pc = "save"]
    /\ UNCHANGED <<storeVars, callVars, notified, docs, view, geoVars,
                   walletBalance, withdrawRequests, ratings>>

\* ratingController.js 511-514: status approved, save (by _id), 200
approveWithdraw_Save(w) ==
    /\ ops[w].kind = "approveWithdraw"
    /\ ops[w].pc = "save"
    /\ withdrawRequests' = [withdrawRequests EXCEPT ![ops[w].id].status = "approved"]
    /\ ops' = [ops EXCEPT ![w] = Answer(w, 200)]
    /\ UNCHANGED <<storeVars, callVars, notified, docs, view, geoVars,
                   walletBalance, walletTransactions, ratings>>

\* ratingController.js 490-515 has no try/catch and no transaction: a store
\* operation that throws leaves what was written before it and no response
approveWithdraw_Throws(w) ==
    /\ ops[w].kind = "approveWithdraw"
    /\ ops[w].pc \in {"inc", "ledger", "save"}
    /\ ops' = [ops EXCEPT ![w].pc = "unanswered"]
    /\ UNCHANGED <<storeVars, callVars, notified, docs, view, geoVars,
                   walletVars, ratings>>

\* ratingController.js 518-524: findById, the request must be pending
rejectWithdraw_Begin(w, i) ==
    /\ OpFree(w)
    /\ LET op == [NoOp EXCEPT !.kind = "rejectWithdraw", !.id = i]
           d  == withdrawRequests[i]
       IN ops' = [ops EXCEPT ![w] =
                    IF d.status # "pending"
                      THEN [op EXCEPT !.pc = "done", !.seen = 400]
                      ELSE [op EXCEPT !.pc = "save", !.who = d.technicianId,
                                      !.amount = d.amount]]
    /\ UNCHANGED <<storeVars, callVars, notified, docs, view, geoVars,
                   walletVars, ratings>>

\* ratingController.js 526-529: status rejected, save, 200; the balance and
\* the ledger are not touched
rejectWithdraw_Save(w) ==
    /\ ops[w].kind = "rejectWithdraw"
    /\ ops[w].pc = "save"
    /\ withdrawRequests' = [withdrawRequests EXCEPT ![ops[w].id].status = "rejected"]
    /\ ops' = [ops EXCEPT ![w] = Answer(w, 200)]
    /\ UNCHANGED <<storeVars, callVars, notified, docs, view, geoVars,
                   walletBalance, walletTransactions, ratings>>

\* part_001 186-234: findById, a debit must be covered by the balance read
createWalletTransaction_Begin(w, t, amount, type) ==
    /\ OpFree(w)
    /\ LET op == [NoOp EXCEPT !.kind = "createWalletTransaction", !.who = t,
                               !.amount = amount, !.type = type]
       IN ops' = [ops EXCEPT ![w] =
                    IF amount <= 0 \/ type \notin {"credit", "debit"}
                         \/ (type = "debit" /\ walletBalance[t] < amount)
                      THEN [op EXCEPT !.pc = "done", !.seen = 400]
                      ELSE [op EXCEPT !.pc = "transaction"]]
    /\ UNCHANGED <<storeVars, callVars, notified, docs, view, geoVars,
                   walletVars, ratings>>

\* part_001 236-257: withTransaction writes the entry and $inc's the balance
createWalletTransaction_Transaction(w) ==
    /\ ops[w].kind = "createWalletTransaction"
    /\ ops[w].pc = "transaction"
    /\ LET t == ops[w].who
           a == ops[w].amount
       IN /\ walletTransactions' = walletTransactions \cup
                {Entry(w, t, a, ops[w].type, "adjustment", "manual", 0)}
          /\ walletBalance' = [walletBalance EXCEPT ![t] =
                                 IF ops[w].type = "credit" THEN @ + a ELSE @ - a]
          /\ ops' = [ops EXCEPT ![w] = Answer(w, 201)]
    /\ UNCHANGED <<storeVars, callVars, notified, docs, view, geoVars,
                   withdrawRequests, ratings>>

\* ================================== ratings: ratingController.js userRating ==
\* Rating.findOne({bookingId})
RatingsOf(j) == {r \in ratings : r.bookingId = j}

\* ratingController.js 60-132: the caller is authenticated, rates must be an
\* integer from 1 to 5, the service booking must belong to the caller
\* (findOne {_id, customerId}) and be completed
userRating_Begin(w, u, j, rates) ==
    /\ OpFree(w)
    /\ LET op == [NoOp EXCEPT !.kind = "userRating", !.who = u, !.id = j,
                               !.amount = rates]
       IN ops' = [ops EXCEPT ![w] =
                    IF rates < 1 \/ rates > 5
                      THEN [op EXCEPT !.pc = "done", !.seen = 400]
                    ELSE IF CustomerOf(j) # u
                      THEN [op EXCEPT !.pc = "done", !.seen = 404]
                    ELSE IF bookings[j].status # "completed"
                      THEN [op EXCEPT !.pc = "done", !.seen = 400]
                    ELSE [op EXCEPT !.pc = "findRating"]]
    /\ UNCHANGED <<storeVars, callVars, notified, docs, view, geoVars,
                   walletVars, ratings>>

\* ratingController.js 158-166: a rating of the booking stops the request
userRating_FindRating(w) ==
    /\ ops[w].kind = "userRating"
    /\ ops[w].pc = "findRating"
    /\ ops' = [ops EXCEPT ![w] =
                 IF RatingsOf(ops[w].id) # {} THEN Answer(w, 409)
                                              ELSE [@ EXCEPT !.pc = "create"]]
    /\ UNCHANGED <<storeVars, callVars, notified, docs, view, geoVars,
                   walletVars, ratings>>

\* ratingController.js 168-199: Rating.create, roll-ups, 201.  The handler
\* passes no condition to the insert.  Schemas/Rating.js is not part of
\* src/: if the collection carries a unique index on bookingId (unique), a
\* second document for the booking is refused and the catch answers 500;
\* if it carries none the document is stored.
userRating_Create(w, unique) ==
    /\ ops[w].kind = "userRating"
    /\ ops[w].pc = "create"
    /\ IF unique /\ RatingsOf(ops[w].id) # {}
         THEN /\ ops' = [ops EXCEPT ![w] = Answer(w, 500)]
              /\ UNCHANGED ratings
         ELSE /\ ratings' = ratings \cup
                    {[op |-> w, bookingId |-> ops[w].id, userId |-> ops[w].who,
                      rates |-> ops[w].amount]}
              /\ ops' = [ops EXCEPT ![w] = Answer(w, 201)]
    /\ UNCHANGED <<storeVars, callVars, notified, docs, view, geoVars, walletVars>>

\* ------------------------------------------------------------- Next
\* the steps of the requests in the slots C
Steps(C) ==
    \/ \E c \in C : respondToJob_ActiveJob(c)
    \/ \E c \in C : respondToJob_FindBroadcast(c)
    \/ \E c \in C : respondToJob_FindOneAndUpdate(c)
    \/ \E c \in C : respondToJob_UpdateOne(c)
    \/ \E c \in C : respondToJob_FindOthers(c)
    \/ \E c \in C : respondToJob_UpdateMany(c)
    \/ \E c \in C : respondToJob_Commit(c)
    \/ \E c \in C, ok \in BOOLEAN : respondToJob_Notify(c, ok)
    \/ \E c \in C : respondToJob_Catch(c)
    \/ \E c \in C : respondToJob_p0_Activation(c)
    \/ \E c \in C : respondToJob_p0_FindBroadcast(c)
    \/ \E c \in C : respondToJob_p0_FindTechnician(c)

\* requests arriving in the slots C and their steps
Requests(C) ==
    \/ \E c \in C, t \in Techs, j \in Jobs : respondToJob_Begin(c, t, j, "accept")
    \/ \E c \in C, t \in Techs : respondToJob_Begin(c, t, 1, "reject")
    \/ \E c \in C : respondToJob_Begin(c, Null, 1, "accept")
    \/ \E c \in C, t \in Techs, j \in Jobs : respondToJob_p0_Begin(c, t, j, "accept")
    \/ Steps(C)

Store ==
    \/ \E j \in Jobs, t \in Techs : recordBroadcast(j, t)
    \/ \E j \in Jobs : progressJob(j)

Profiles ==
    \/ \E t \in Techs, online \in BOOLEAN : updateTechnician(t, online)
    \/ \E t \in Techs, ws \in WorkStatusInputs :
          technicians[t].workStatus # ws /\ updateTechnicianStatus(t, NotSent, ws)
    \/ \E t \in Techs, online \in BOOLEAN : updateTechnician_v2(t, online)

\* concurrent requests against a store whose technician profiles stay put
Next == Requests(Calls) \/ Store

Spec == Init /\ [][Next]_vars

\* one request at a time while technicians go on/offline and the owner
\* changes work status and training
NextElig == Requests({1}) \/ Store \/ Profiles

SpecElig == Init /\ [][NextElig]_vars

\* ------------------------------------------------ read-only operations
\* The stores the read-only operations are asked about: technician 1 has any
\* profile (an online technician has finished training and is not suspended),
\* holds job 2 or has completed it, and may have been offered job 1.
ProfileInputs ==
    {p \in [verificationStatus : {"approved", "pending"},
            bankVerified : BOOLEAN, trainingCompleted : BOOLEAN,
            workStatus : {"pending", "trained", "approved", "suspended"},
            isOnline : BOOLEAN] :
       p.isOnline => p.trainingCompleted /\ p.workStatus # "suspended"}

InitViews ==
    /\ \E s \in OpenStatuses, d \in {"accepted", "completed"} :
          bookings = [j \in Jobs |->
                        IF j = 1
                          THEN [status |-> s, technicianId |-> Null, assignedAt |-> 0]
                          ELSE [status |-> d, technicianId |-> j - 1,
                                assignedAt |-> 0]]
    /\ \E r1, r2 \in {"none", "sent"} :
          broadcasts = [j \in Jobs |-> [t \in Techs |->
                          IF j = 1 THEN (IF t = 1 THEN r1 ELSE IF t = 2 THEN r2 ELSE "none")
                          ELSE IF t = j - 1 THEN "accepted" ELSE "expired"]]
    /\ \E p \in ProfileInputs :
          technicians = [t \in Techs |-> IF t = 1 THEN p ELSE InitProfile]
    /\ pc = [c \in Calls |-> "idle"]
    /\ arg = [c \in Calls |-> NoArg]
    /\ snap = [c \in Calls |-> NoSnap]
    /\ pend = [c \in Calls |-> NoPend]
    /\ others = [c \in Calls |-> {}]
    /\ resp = [c \in Calls |-> NoResp]
    /\ atStart = [c \in Calls |-> NoStart]
    /\ notified = {}
    /\ docs = [j \in Jobs |-> [t \in Techs |->
                  IF broadcasts[j][t] = "none" THEN 0 ELSE 1]]
    /\ view = NoView
    /\ NoSide
    /\ NoGeo

Views ==
    \/ \E t \in Techs, f \in BOOLEAN : evaluate(t, f)
    \/ \E t \in Techs, m \in Modes : activationView(t, m)
    \/ \E t \in Techs, f \in BOOLEAN : activationView_p0(t, f)
    \/ \E t \in Techs \cup {Null}, m \in Modes : getMyJobs(t, m)
    \/ \E t \in Techs \cup {Null} : getMyJobs_p0(t)
    \/ \E j \in Jobs, t \in Techs : recordBroadcast_Again(j, t)

NextViews == Views \/ Store

SpecViews == InitViews /\ [][NextViews]_vars

\* a client that repeats its accept: the second request comes from the
\* technician of the first, for the same job, through either handler
RetryArrivals ==
    \/ \E t \in Techs : respondToJob_Begin(1, t, 1, "accept")
    \/ \E t \in Techs : respondToJob_p0_Begin(1, t, 1, "accept")
    \/ \E c \in Calls \ {1} : respondToJob_Begin(c, arg[1].tech, arg[1].job, "accept")
    \/ \E c \in Calls \ {1} : respondToJob_p0_Begin(c, arg[1].tech, arg[1].job, "accept")

NextRetry == RetryArrivals \/ Steps(Calls) \/ Store

SpecRetry == Init /\ [][NextRetry]_vars

\* ------------------------------------------------ feeds and locations
\* The stores the feeds and the location updates are asked about: the jobs
\* are open, or the last one is held by technician 2; technician 1 has or has
\* not been offered the open ones, is activated or lacks the bank
\* verification, and has no stored point yet; jobs have a location or none.

JobPointInputs == {NoPoint, [lng |-> 10, lat |-> 0], [lng |-> 10 * MaxCoord, lat |-> 0]}
JsNull == [kind |-> "null", value |-> 0]
\* <<latitude, longitude>> as sent by the client
CoordInputs  == {<<Absent, Absent>>, <<JsNull, JsNull>>, <<Absent, Num(0)>>,
                 <<Num(0), Num(0)>>, <<Num(0), Num(10 * MaxCoord)>>,
                 <<Num(0), Str(10 * MaxCoord)>>}
RadiusInputs == {Absent, Num(10 * MaxCoord)}

InitGeo ==
    /\ \E s \in OpenStatuses, d \in {"broadcasted", "accepted"} :
          bookings = [j \in Jobs |->
                        IF j < NumJobs
                          THEN [status |-> s, technicianId |-> Null, assignedAt |-> 0]
                          ELSE [status |-> d,
                                technicianId |-> IF d = "accepted" THEN 2 ELSE Null,
                                assignedAt |-> 0]]
    /\ \E r \in [Jobs -> {"none", "sent"}] :
          broadcasts = [j \in Jobs |-> [t \in Techs |->
                          IF IsOpen(bookings[j])
                            THEN (IF t = 1 THEN r[j] ELSE "none")
                            ELSE (IF t = 2 THEN "accepted"
                                  ELSE IF t = 1 /\ r[j] = "sent" THEN "expired"
                                  ELSE "none")]]
    /\ \E b \in BOOLEAN :
          technicians = [t \in Techs |->
                           IF t = 1 THEN [InitProfile EXCEPT !.bankVerified = b]
                                    ELSE InitProfile]
    /\ location = [t \in Techs |-> NoPoint]
    /\ jobLocation \in [Jobs -> JobPointInputs]
    /\ lastMatchAt = [t \in Techs |-> Never]
    /\ clock = 0
    /\ pc = [c \in Calls |-> "idle"]
    /\ arg = [c \in Calls |-> NoArg]
    /\ snap = [c \in Calls |-> NoSnap]
    /\ pend = [c \in Calls |-> NoPend]
    /\ others = [c \in Calls |-> {}]
    /\ resp = [c \in Calls |-> NoResp]
    /\ atStart = [c \in Calls |-> NoStart]
    /\ notified = {}
    /\ docs = [j \in Jobs |-> [t \in Techs |->
                  IF broadcasts[j][t] = "none" THEN 0 ELSE 1]]
    /\ view = NoView
    /\ NoSide

Feeds ==
    \/ \E t \in {1, Null} : getMyJobs(t, "ok")
    \/ \E t \in {1, Null} : getMyJobs_p0(t)
    \/ \E t \in {1, Null}, in \in CoordInputs, r \in RadiusInputs :
          getNearbyJobs(t, in[1], in[2], r)

Rematches ==
    \/ \E t \in {1, Null}, in \in CoordInputs :
          updateTechnicianLocation(t, in[1], in[2])
    \/ \E online \in BOOLEAN : updateTechnician_v2(1, online)
    \/ Tick

NextGeo == Feeds \/ Rematches

SpecGeo == InitGeo /\ [][NextGeo]_vars

\* ------------------------------------------------ one technician, two jobs
\* Every job is open and on offer to technician 1 (job 1 to technician 2 as
\* well); technician 1 answers the offers, through either handler, while the
\* accepted jobs go on.
InitBusy ==
    /\ \E s \in OpenStatuses :
          bookings = [j \in Jobs |->
                        [status |-> s, technicianId |-> Null, assignedAt |-> 0]]
    /\ broadcasts = [j \in Jobs |-> [t \in Techs |->
                        IF t = 1 \/ (t = 2 /\ j = 1) THEN "sent" ELSE "none"]]
    /\ technicians = [t \in Techs |-> InitProfile]
    /\ pc = [c \in Calls |-> "idle"]
    /\ arg = [c \in Calls |-> NoArg]
    /\ snap = [c \in Calls |-> NoSnap]
    /\ pend = [c \in Calls |-> NoPend]
    /\ others = [c \in Calls |-> {}]
    /\ resp = [c \in Calls |-> NoResp]
    /\ atStart = [c \in Calls |-> NoStart]
    /\ notified = {}
    /\ docs = [j \in Jobs |-> [t \in Techs |->
                  IF broadcasts[j][t] = "none" THEN 0 ELSE 1]]
    /\ view = NoView
    /\ NoSide
    /\ NoGeo

SameTechnicianArrivals ==
    \/ \E c \in Calls, j \in Jobs : respondToJob_Begin(c, 1, j, "accept")
    \/ \E c \in Calls, j \in Jobs : respondToJob_p0_Begin(c, 1, j, "accept")

NextBusy ==
    \/ SameTechnicianArrivals
    \/ Steps(Calls)
    \/ \E j \in Jobs : progressJob(j)

SpecBusy == InitBusy /\ [][NextBusy]_vars

\* ------------------------------------------------ profile administration
\* Technicians start as created: not trained, work status pending, offline
\* (here with KYC and bank details already approved).  The owner sets
\* training and work status while the technicians toggle isOnline.
NewProfile == [verificationStatus |-> "approved", bankVerified |-> TRUE,
               trainingCompleted |-> FALSE, workStatus |-> "pending",
               isOnline |-> FALSE]

InitAdmin ==
    /\ \E s \in OpenStatuses :
          bookings = [j \in Jobs |->
                        [status |-> s, technicianId |-> Null, assignedAt |-> 0]]
    /\ broadcasts = [j \in Jobs |-> [t \in Techs |-> "none"]]
    /\ technicians = [t \in Techs |-> NewProfile]
    /\ pc = [c \in Calls |-> "idle"]
    /\ arg = [c \in Calls |-> NoArg]
    /\ snap = [c \in Calls |-> NoSnap]
    /\ pend = [c \in Calls |-> NoPend]
    /\ others = [c \in Calls |-> {}]
    /\ resp = [c \in Calls |-> NoResp]
    /\ atStart = [c \in Calls |-> NoStart]
    /\ notified = {}
    /\ docs = [j \in Jobs |-> [t \in Techs |-> 0]]
    /\ view = NoView
    /\ NoSide
    /\ NoGeo

TrainingInputs == {NotSent, "true", "false"}

NextAdmin ==
    \/ \E t \in Techs, online \in BOOLEAN : updateTechnician(t, online)
    \/ \E t \in Techs, tc \in TrainingInputs,
          ws \in TECHNICIAN_STATUSES \cup {NotSent} : updateTechnicianStatus(t, tc, ws)
    \/ \E t \in Techs, tc \in BOOLEAN : updateTechnicianTraining(t, tc)

SpecAdmin == InitAdmin /\ [][NextAdmin]_vars

\* ------------------------------------------------ the action of a request
\* Technicians 1 and 2 answer their offers one request after the other,
\* through either handler, with any status in the body.
ActionInputs == {"accept", "accepted", "reject", NonString}

Idle == \A c \in Calls : pc[c] \in {"idle", "done", "unanswered"}

NextAction ==
    \/ \E c \in Calls, t \in {1, 2}, j \in Jobs, a \in ActionInputs :
          Idle /\ respondToJob_Begin(c, t, j, a)
    \/ \E c \in Calls, t \in {1, 2}, j \in Jobs, a \in ActionInputs :
          Idle /\ respondToJob_p0_Begin(c, t, j, a)
    \/ Steps(Calls)

SpecAction == InitBusy /\ [][NextAction]_vars

\* ------------------------------------------------ the wallet
\* Technician 1 asks for withdrawals and cancels them, the admin approves,
\* rejects and books manual entries, in any interleaving.
AmountInputs == {MinWithdrawal - 400, MinWithdrawal, 2 * MinWithdrawal}

WalletArrivals ==
    \/ \E w \in Ops, a \in AmountInputs : requestWithdraw_Begin(w, 1, a)
    \/ \E w \in Ops, i \in WithdrawIds : cancelMyWithdrawal_Begin(w, 1, i)
    \/ \E w \in Ops, i \in WithdrawIds : approveWithdraw_Begin(w, i)
    \/ \E w \in Ops, i \in WithdrawIds : rejectWithdraw_Begin(w, i)
    \/ \E w \in Ops, ty \in {"credit", "debit"} :
          createWalletTransaction_Begin(w, 1, MinWithdrawal, ty)

WalletSteps ==
    \/ \E w \in Ops : requestWithdraw_FindPending(w)
    \/ \E w \in Ops : requestWithdraw_Transaction(w)
    \/ \E w \in Ops : cancelMyWithdrawal_Transaction(w)
    \/ \E w \in Ops : approveWithdraw_Inc(w)
    \/ \E w \in Ops : approveWithdraw_Ledger(w)
    \/ \E w \in Ops : approveWithdraw_Save(w)
    \/ \E w \in Ops : approveWithdraw_Throws(w)
    \/ \E w \in Ops : rejectWithdraw_Save(w)
    \/ \E w \in Ops : createWalletTransaction_Transaction(w)

NextWallet == WalletArrivals \/ WalletSteps

SpecWallet == Init /\ [][NextWallet]_vars

\* ------------------------------------------------ ratings
\* Job 1 is completed, the last job is being worked on and may complete;
\* the customers rate their bookings, and other people's, in any
\* interleaving.
InitRating ==
    /\ bookings = [j \in Jobs |->
                     [status |-> IF j < NumJobs THEN "completed" ELSE "in_progress",
                      technicianId |-> 1 + (j % NumTechs), assignedAt |-> 0]]
    /\ broadcasts = [j \in Jobs |-> [t \in Techs |->
                        IF t = bookings[j].technicianId THEN "accepted" ELSE "expired"]]
    /\ technicians = [t \in Techs |-> InitProfile]
    /\ pc = [c \in Calls |-> "idle"]
    /\ arg = [c \in Calls |-> NoArg]
    /\ snap = [c \in Calls |-> NoSnap]
    /\ pend = [c \in Calls |-> NoPend]
    /\ others = [c \in Calls |-> {}]
    /\ resp = [c \in Calls |-> NoResp]
    /\ atStart = [c \in Calls |-> NoStart]
    /\ notified = {}
    /\ docs = [j \in Jobs |-> [t \in Techs |-> 1]]
    /\ view = NoView
    /\ NoSide
    /\ NoGeo

RatesInputs == {0, 5}

NextRating ==
    \/ \E w \in Ops, u \in Users, j \in Jobs, rates \in RatesInputs :
          userRating_Begin(w, u, j, rates)
    \/ \E w \in Ops : userRating_FindRating(w)
    \/ \E w \in Ops, unique \in BOOLEAN : userRating_Create(w, unique)
    \/ \E j \in Jobs : progressJob(j)

SpecRating == InitRating /\ [][NextRating]_vars

TypeOK ==
    /\ \A j \in Jobs : bookings[j].technicianId \in Techs \cup {Null}
    /\ \A c \in Calls : pc[c] \in {"idle", "activation", "activeJob", "findBroadcast",
                                   "findTechnician", "cas", "updateOne", "findOthers",
                                   "updateMany", "commit", "notify", "done",
                                   "unanswered"}

\* ------------------------------------------------ vocabulary of the claims
Finished(c)  == pc[c] = "done"
IsAccept(c)  == arg[c].act \in AcceptWords
\* the request was answered by the handler itself, not by an injected store failure
Undisturbed(c) == resp[c].kind \notin {"store_error", "aborted", "notify_error"}
Used == {c \in Calls : pc[c] # "idle"}

\* the requests of the slots in use all answered, none by an injected failure
Settled(S) == \A c \in S : Finished(c) /\ Undisturbed(c)

\* C1 (as claimed): when N >= 1 distinct technicians who each held a sent
\* broadcast for the open job, with no active job, have all been answered,
\* exactly one was answered with success and every other one with
\* Conflict(already_taken).
C1_Original ==
    (/\ Used # {}
     /\ Settled(Used)
     /\ \A c \in Used : /\ IsAccept(c)
                        /\ arg[c].job = 1
                        /\ atStart[c].fail = "none"
                        /\ atStart[c].open
     /\ \A c, d \in Used : c # d => arg[c].tech # arg[d].tech)
    => /\ Cardinality({c \in Used : resp[c] = R_Ok}) = 1
       /\ \A c \in Used : resp[c] # R_Ok => resp[c] = R_AlreadyTaken

\* C2 (as claimed): once every accept request on a job has been answered and
\* one of them succeeded, the winner's broadcast row is the only accepted row
\* of the job and every other row of the job is expired.
C2_Original ==
    \A j \in Jobs :
      LET S == {c \in Used : arg[c].job = j}
      IN (/\ \A c \in S : Finished(c)
          /\ \E c \in S : resp[c] = R_Ok)
         => \E c \in S :
              /\ resp[c] = R_Ok
              /\ \A t \in Techs :
                    /\ t = arg[c].tech => broadcasts[j][t] = "accepted"
                    /\ t # arg[c].tech => broadcasts[j][t] \in {"none", "expired"}

\* the request of slot c came after the booking had been assigned to another
\* technician, from a technician without active job whose row was expired
Latecomer(c) ==
    /\ Finished(c)
    /\ Undisturbed(c)
    /\ IsAccept(c)
    /\ arg[c].tech # Null
    /\ atStart[c].row = "expired"
    /\ ~atStart[c].open
    /\ atStart[c].fail # "busy"
    /\ bookings[arg[c].job].technicianId \notin {Null, arg[c].tech}

AssignmentWritten(j) ==
    \/ bookings'[j].technicianId # bookings[j].technicianId
    \/ bookings'[j].assignedAt # bookings[j].assignedAt
    \/ bookings'[j].status # bookings[j].status /\ bookings'[j].status = "accepted"

\* C4: the assignment fields of a booking change only by the conditional
\* update of a committing accept, and only when the booking is requested or
\* broadcasted and unassigned at that moment; in every other step, whatever the
\* request read earlier, status/technicianId/assignedAt stay as they are.
C4_GuardedUpdate ==
    [][\A j \in Jobs :
         AssignmentWritten(j) =>
           /\ IsOpen(bookings[j])
           /\ \E c \in Calls :
                 /\ pc[c] = "commit"
                 /\ arg[c].job = j
                 /\ bookings'[j] = [status |-> "accepted",
                                    technicianId |-> arg[c].tech,
                                    assignedAt |-> pend[c].job.assignedAt]]_vars

\* a request that saw the booking open on arrival lost at the conditional update
C4_Witness ==
    \E c \in Calls :
      /\ Finished(c)
      /\ atStart[c].open
      /\ atStart[c].fail = "none"
      /\ resp[c] \in {R_WriteConflict, R_AlreadyTaken}
      /\ bookings[arg[c].job].technicianId \notin {Null, arg[c].tech}

C6_Original ==
    \A j \in Jobs, t \in Techs :
      bookings[j].technicianId # Null => broadcasts[j][t] # "sent"

\* the transaction of slot c holds writes that are not committed yet
HasPending(c) == pend[c].job # NoBooking

\* the committed booking and ledger rows of the request's job are as the
\* transaction first read them (rows inserted by others since are not its own)
AsFirstRead(c) ==
    /\ bookings[arg[c].job] = snap[c].booking
    /\ \A t \in Techs : snap[c].rows[t] # "none" =>
                            broadcasts[arg[c].job][t] = snap[c].rows[t]

C7_AllOrNothing ==
    [][\A c \in Calls :
         /\ HasPending(c) => /\ AsFirstRead(c)
                             /\ IsOpen(bookings[arg[c].job])
         /\ (HasPending(c) /\ pc'[c] = "done" /\ resp'[c] = R_Aborted) =>
               /\ bookings' = bookings
               /\ broadcasts' = broadcasts
               /\ IsOpen(bookings'[arg[c].job])
         /\ (pc[c] = "commit" /\ bookings'[arg[c].job] # bookings[arg[c].job]) =>
               /\ bookings'[arg[c].job].technicianId = arg[c].tech
               /\ broadcasts'[arg[c].job][arg[c].tech] = "accepted"
               /\ \A t \in Techs :
                     (t # arg[c].tech /\ snap[c].rows[t] # "none") =>
                        broadcasts'[arg[c].job][t] = "expired"]_vars

\* the facts the request of slot c met when it arrived still hold: same first
\* failing precondition, same row, job as open as it was.  A request answered
\* with success has changed row and job itself; its technician's eligibility
\* is then what must not have moved.
FactsStable(c) ==
    IF resp[c] = R_Ok
      THEN atStart[c].fail = "ineligible" => ~Eligible(arg[c].tech)
      ELSE StartFacts(arg[c].tech, arg[c].job) = atStart[c]

\* C8 (as claimed): an accept by a technician who has no active job and holds
\* a sent row for the job, but is offline or not work-status approved, is
\* answered with ineligible, and the job stays unassigned with the
\* technician's row still sent.
C8_Original ==
    \A c \in Calls :
      (/\ Finished(c) /\ IsAccept(c) /\ Undisturbed(c)
       /\ atStart[c].fail = "ineligible" /\ atStart[c].open
       /\ FactsStable(c))
      => /\ resp[c] = R_Ineligible
         /\ bookings[arg[c].job].technicianId = Null
         /\ broadcasts[arg[c].job][arg[c].tech] = "sent"

\* C9 (as claimed): the preconditions are evaluated in the order busy,
\* not_offered, ineligible: a finished accept whose first failing precondition
\* is X is answered with X, and already_taken is answered only when all three
\* pass.
C9_Original ==
    \A c \in Calls :
      (Finished(c) /\ IsAccept(c) /\ Undisturbed(c) /\ FactsStable(c))
      => /\ atStart[c].fail = "busy"        => resp[c] = R_Busy
         /\ atStart[c].fail = "not_offered" => resp[c] = R_NotOffered
         /\ atStart[c].fail = "ineligible"  => resp[c] = R_Ineligible
         /\ resp[c] = R_AlreadyTaken        => atStart[c].fail = "none"

\* every notification handed to the transport belongs to a committed assignment
NotifiedCommitted ==
    \A n \in notified :
      /\ bookings[n.job].technicianId = n.tech
      /\ bookings[n.job].status \in AssignedStatuses
      /\ broadcasts[n.job][n.tech] = "accepted"

\* C10: notifications are issued only for an assignment that is committed, and
\* the notification step, whether it succeeds or throws, changes neither the
\* booking nor any broadcast row.
C10_NotifyAfterCommit ==
    [][/\ NotifiedCommitted'
       /\ \A c \in Calls :
            pc[c] = "notify" =>
              /\ bookings[arg[c].job].technicianId = arg[c].tech
              /\ broadcasts[arg[c].job][arg[c].tech] = "accepted"
              /\ pc'[c] = "done" => /\ bookings' = bookings
                                    /\ broadcasts' = broadcasts]_vars

\* a notification threw after the commit and the assignment stands
C10_Witness ==
    \E c \in Calls :
      /\ Finished(c)
      /\ resp[c] = R_NotifyError
      /\ bookings[arg[c].job].technicianId = arg[c].tech
      /\ broadcasts[arg[c].job][arg[c].tech] = "accepted"

C12_NoDuplicateEffect ==
    [][/\ \A j \in Jobs :
            bookings[j].technicianId # Null =>
               /\ bookings'[j].technicianId = bookings[j].technicianId
               /\ bookings'[j].assignedAt = bookings[j].assignedAt
       /\ \A j \in Jobs, t \in Techs :
            broadcasts[j][t] \in {"accepted", "expired"} =>
               broadcasts'[j][t] = broadcasts[j][t]]_vars

\* the technician's first accept was committed but answered 500, or was rolled
\* back after its conditional update; the same technician asked again for the
\* same job, was answered, and holds the job
C12_Witness ==
    \E c, d \in Calls :
      /\ c # d
      /\ Finished(c) /\ Finished(d)
      /\ IsAccept(c) /\ IsAccept(d)
      /\ arg[c].tech = arg[d].tech /\ arg[c].job = arg[d].job
      /\ arg[c].job = 1
      /\ \/ resp[c] = R_NotifyError /\ atStart[d].row = "accepted"
         \/ resp[c] = R_Aborted /\ resp[d] = R_Ok
      /\ bookings[1].technicianId = arg[c].tech

\* this step produces the answer of the read-only operation op
Answered(op) == view' # view /\ view'.op = op

\* the reason codes of the conditions technician t fails, read off the store
FailingCodes(t) ==
    {code \in {"kyc"} : technicians[t].verificationStatus # "approved"}
    \cup {code \in {"bank"} : ~technicians[t].bankVerified}
    \cup {code \in {"training"} : ~technicians[t].trainingCompleted}
    \cup {code \in {"work_status"} : technicians[t].workStatus # "approved"}
    \cup {code \in {"offline"} : ~technicians[t].isOnline}
    \cup {code \in {"active_job"} :
            \E j \in Jobs : /\ bookings[j].technicianId = t
                            /\ bookings[j].status \in ActiveStatuses}

\* C13: evaluate never answers eligible = true while one of kyc, bank,
\* training, work_status, active_job is unsatisfied for the technician.
C13_EligibleOnlyIfAllHold ==
    [][(Answered("evaluate") /\ view'.ok) =>
         FailingCodes(view'.tech) \cap
            {"kyc", "bank", "training", "work_status", "active_job"} = {}]_vars

\* evaluate answered eligible for the technician whose profile varies
C13_Witness ==
    /\ view.op = "evaluate"
    /\ view.tech = 1
    /\ view.ok

\* C14: evaluate reports all failing conditions together: its reasons are
\* exactly the codes of the conditions that fail, and eligible is true exactly
\* when there is none.
C14_AllReasonsReported ==
    [][(Answered("evaluate") /\ ~view'.fail) =>
         /\ view'.reasons = FailingCodes(view'.tech)
         /\ view'.ok <=> view'.reasons = {}]_vars

\* evaluate reported an account-level reason, offline and busy in one answer
C14_Witness ==
    /\ view.op = "evaluate"
    /\ ~view.ok
    /\ {"bank", "work_status", "offline", "active_job"} \subseteq view.reasons

\* C15: the eligibility evaluation never throws past its boundary: when a
\* lookup fails, evaluate still answers with a structured not-eligible result
\* that carries a reason; the activation check built on it answers not active,
\* whether the evaluator reported the failure or threw, and no exception
\* leaves it, so the feed that called it answers 200 with an empty list.
C15_NeverThrows ==
    [][/\ (Answered("evaluate") /\ view'.fail) =>
            ~view'.ok /\ view'.reasons # {}
       /\ (Answered("activation") /\ view'.fail) =>
            ~view'.ok /\ view'.status # 500
       /\ (Answered("activation_p0") /\ view'.fail) => ~view'.ok
       /\ (Answered("getMyJobs") /\ view'.fail) =>
            view'.status = 200 /\ view'.jobs = {}]_vars

\* the activation check was asked about a fully verified technician while the
\* evaluator's lookup failed, and answered not active
C15_Witness ==
    /\ view.op = "activation"
    /\ view.fail
    /\ ~view.ok
    /\ FailingCodes(view.tech) = {}

\* the activation answer op gives in this step is the evaluator's verdict
\* without the reason offline
ActivationMatches(op) ==
    (Answered(op) /\ ~view'.fail) =>
       /\ view'.ok <=> FailingCodes(view'.tech) \ {"offline"} = {}
       /\ ~view'.ok => view'.reasons = FailingCodes(view'.tech) \ {"offline"}

\* C16 (as claimed): the activation view answers active exactly when the
\* evaluation yields no failing reason other than offline, and when it answers
\* not active its reasons are the evaluator's reasons with offline removed.
C16_Original ==
    [][ActivationMatches("activation") /\ ActivationMatches("activation_p0")]_vars

\* C16, the part that holds: the activation check built on the evaluator
\* (technicianBroadcastController.js) answers as claimed.
C16_ControllerView ==
    [][ActivationMatches("activation")]_vars

\* C17 (as claimed): isOnline goes from false to true only when, at that
\* moment, every eligibility condition other than being online holds: KYC
\* approved, bank verified, training completed, work status approved, no
\* active job.
C17_Original ==
    [][\A t \in Techs :
         (~technicians[t].isOnline /\ technicians'[t].isOnline) =>
            FailingCodes(t) \ {"offline"} = {}]_vars

\* technician t has a job in status accepted, on_the_way, reached or in_progress
Busy(t) ==
    \E j \in Jobs : bookings[j].technicianId = t /\ bookings[j].status \in ActiveStatuses

\* this step offers job j to technician t
Offered(j, t) == broadcasts[j][t] = "none" /\ broadcasts'[j][t] = "sent"

AccountReady(t) ==
    /\ technicians[t].verificationStatus = "approved"
    /\ technicians[t].bankVerified
    /\ technicians[t].trainingCompleted
    /\ technicians[t].workStatus = "approved"

VisibleJobs(t) ==
    {j \in Jobs : broadcasts[j][t] = "sent" /\ IsOpen(bookings[j])}

\* C20 (as claimed): for an authenticated technician and with no lookup
\* failing, myJobs answers with success; the list is empty whenever the
\* technician fails a condition of the evaluation (an active job included),
\* and is the list of open jobs offered to him otherwise.
C20_Original ==
    [][\A op \in {"getMyJobs", "getMyJobs_p0"} :
         (Answered(op) /\ view'.tech # Null /\ ~view'.fail) =>
            /\ view'.status = 200
            /\ view'.ok
            /\ view'.jobs = IF FailingCodes(view'.tech) # {}
                              THEN {}
                              ELSE VisibleJobs(view'.tech)]_vars

\* C20, the part that holds: a technician with an active job, or failing a
\* condition other than being online, gets success and an empty list from
\* getMyJobs of technicianBroadcastController.js; one failing nothing gets
\* the open jobs offered to him.
C20_ControllerBarriers ==
    [][(Answered("getMyJobs") /\ view'.tech # Null /\ ~view'.fail) =>
          /\ view'.status = 200
          /\ view'.ok
          /\ FailingCodes(view'.tech) \ {"offline"} # {} => view'.jobs = {}
          /\ FailingCodes(view'.tech) = {} => view'.jobs = VisibleJobs(view'.tech)]_vars

\* the cooldown of technician t has not elapsed
CoolingDown(t) == lastMatchAt[t] # Never /\ clock - lastMatchAt[t] < Cooldown

\* this step is a location update of technician t that was accepted
LocationUpdated(t) ==
    /\ view'.op = "updateTechnicianLocation"
    /\ view'.tech = t
    /\ view'.status = 200
    /\ <<view', location', lastMatchAt'>> # <<view, location, lastMatchAt>>

\* C21: a location update of a technician whose last matching is younger than
\* the cooldown reports matchCalculation = false and adds no broadcast row;
\* an update made once the cooldown has elapsed (or the first one) runs the
\* matching again.
C21_CooldownSkipsMatching ==
    [][\A t \in Techs :
         LocationUpdated(t) =>
            IF CoolingDown(t)
              THEN ~view'.match /\ broadcasts' = broadcasts /\ docs' = docs
              ELSE view'.match /\ lastMatchAt'[t] = clock]_vars

\* a second update inside the cooldown was answered with matchCalculation =
\* false while an open job in range had not been offered to the technician
C21_Witness ==
    /\ view.op = "updateTechnicianLocation"
    /\ view.status = 200
    /\ ~view.match
    /\ CoolingDown(1)
    /\ \E j \in MatchedJobs(1, location[1]) : broadcasts[j][1] = "none"

\* the request carries two finite numbers
ValidCoordinates(in) == in[1].kind = "number" /\ in[2].kind = "number"

\* C22: a location update of an authenticated technician with valid
\* coordinates is answered with success and leaves the sent point stored,
\* whether the matching ran or was skipped.
C22_PointAlwaysStored ==
    [][(/\ view'.op = "updateTechnicianLocation"
        /\ view'.tech # Null
        /\ ValidCoordinates(view'.input)
        /\ <<view', location'>> # <<view, location>>) =>
          /\ view'.status = 200
          /\ view'.ok
          /\ location'[view'.tech] = [lng |-> view'.input[2].value,
                                       lat |-> view'.input[1].value]]_vars

\* an update skipped by the cooldown has moved the stored point
C22_Witness ==
    /\ view.op = "updateTechnicianLocation"
    /\ view.status = 200
    /\ ~view.match
    /\ location[1] = view.point
    /\ location[1] = [lng |-> 10 * MaxCoord, lat |-> 0]
    /\ lastMatchAt[1] # Never
\* job j has been offered to technician t and is still on offer
OnOffer(j, t) == broadcasts[j][t] = "sent" /\ IsOpen(bookings[j])

\* this step is a job feed of part_000 answering an activated technician
\* with a list
FeedAnswered(op) ==
    /\ Answered(op)
    /\ view'.tech # Null
    /\ view'.status = 200
    /\ checkTechnicianActivation_p0(view'.tech)

\* C23 (as claimed): the feeds of an activated technician return only jobs
\* that are unassigned with status requested or broadcasted, and every such
\* job offered to him that has a location within the radius of the feed:
\* 10 km around the stored point for myJobs, the requested radius around the
\* search point for nearbyJobs.
C23_Original ==
    [][/\ FeedAnswered("getMyJobs_p0") =>
            LET t == view'.tech
            IN /\ \A j \in view'.jobs : IsOpen(bookings[j])
               /\ location[t] # NoPoint =>
                     \A j \in Jobs :
                        (/\ OnOffer(j, t)
                         /\ jobLocation[j] # NoPoint
                         /\ Dist2(location[t], jobLocation[j])
                               <= MyJobsRadiusKm * MyJobsRadiusKm)
                        => j \in view'.jobs
       /\ (FeedAnswered("getNearbyJobs") /\ view'.radius > 0) =>
            LET t == view'.tech
            IN /\ \A j \in view'.jobs : IsOpen(bookings[j])
               /\ \A j \in Jobs :
                     (/\ OnOffer(j, t)
                      /\ jobLocation[j] # NoPoint
                      /\ Dist2(view'.point, jobLocation[j])
                            <= view'.radius * view'.radius)
                     => j \in view'.jobs]_vars

\* C23, the part that holds: the feeds of part_000 return only unassigned
\* jobs on offer to the technician, all of them in status broadcasted.
C23_OnlyOpenJobs ==
    [][\A op \in {"getMyJobs_p0", "getNearbyJobs"} :
         FeedAnswered(op) =>
            \A j \in view'.jobs : /\ OnOffer(j, view'.tech)
                                   /\ bookings[j].status = "broadcasted"]_vars

\* job j is offered to t, broadcasted, unassigned and has no location
ExemptJob(j, t) ==
    /\ broadcasts[j][t] = "sent"
    /\ bookings[j].status = "broadcasted"
    /\ bookings[j].technicianId = Null
    /\ jobLocation[j] = NoPoint

\* C24 (as claimed): a broadcasted job without a location that is offered to
\* an activated technician is in the answer of myJobs and of nearbyJobs,
\* whatever the technician's position and the radius.
C24_Original ==
    [][\A op \in {"getMyJobs_p0", "getNearbyJobs"} :
         FeedAnswered(op) =>
            \A j \in Jobs : ExemptJob(j, view'.tech) => j \in view'.jobs]_vars

\* C24, the part that holds: myJobs of part_000 lists the jobs without a
\* location.
C24_MyJobsExempt ==
    [][FeedAnswered("getMyJobs_p0") =>
          \A j \in Jobs : ExemptJob(j, view'.tech) => j \in view'.jobs]_vars

\* the parameter was supplied and is a finite number
SuppliedFinite(x) == x.kind \in {"number", "numeric_string"}

\* the search point the contract gives for the coordinates in and technician t
ExpectedPoint(in, t) ==
    IF SuppliedFinite(in[1]) /\ SuppliedFinite(in[2])
      THEN [lng |-> in[2].value, lat |-> in[1].value]
      ELSE location[t]

\* the answer of this step searches around the point the contract gives, or
\* fails with location unknown when there is none
ResolvedAsClaimed ==
    IF ExpectedPoint(view'.input, view'.tech) = NoPoint
      THEN /\ view'.status = 400
           /\ view'.reasons = {"location_unknown"}
           /\ view'.jobs = {}
      ELSE /\ view'.status = 200
           /\ view'.point = ExpectedPoint(view'.input, view'.tech)

\* C25 (as claimed): nearbyJobs of an activated technician searches around
\* the explicit coordinates when both were supplied and are finite, around
\* the stored point otherwise, and answers with the location-unknown error
\* and no jobs when there is neither.
C25_Original ==
    [][(/\ Answered("getNearbyJobs")
        /\ view'.tech # Null
        /\ checkTechnicianActivation_p0(view'.tech)) => ResolvedAsClaimed]_vars

\* C25, the part that holds: when each coordinate is a finite number or is
\* not supplied at all, the point is resolved as claimed.
C25_SuppliedOrMissing ==
    [][(/\ Answered("getNearbyJobs")
        /\ view'.tech # Null
        /\ checkTechnicianActivation_p0(view'.tech)
        /\ \A i \in 1..2 :
              view'.input[i].kind \in {"number", "numeric_string", "absent"})
          => ResolvedAsClaimed]_vars

\* C26: the list answered by nearbyJobs holds the jobs found, once each, and
\* no entry is farther from the search point than the entry after it.
C26_AscendingDistance ==
    [][Answered("getNearbyJobs") =>
          LET l == view'.list
          IN /\ Range(l) = view'.jobs
             /\ Len(l) = Cardinality(view'.jobs)
             /\ \A i \in 1..(Len(l) - 1) :
                   Dist2(view'.point, jobLocation[l[i]])
                     <= Dist2(view'.point, jobLocation[l[i + 1]])]_vars

\* nearbyJobs answered two jobs, the nearer one having the higher id
C26_Witness ==
    /\ view.op = "getNearbyJobs"
    /\ Len(view.list) = 2
    /\ view.list[1] > view.list[2]
    /\ Dist2(view.point, jobLocation[view.list[1]])
         < Dist2(view.point, jobLocation[view.list[2]])

\* C27: no broadcast row is ever deleted, a row is created as sent, the only
\* changes of an existing row are sent -> accepted and sent -> expired, and an
\* accepted or expired row never changes again.
C27_AppendTransitionOnly ==
    [][\A j \in Jobs, t \in Techs :
         /\ docs'[j][t] >= docs[j][t]
         /\ broadcasts'[j][t] # broadcasts[j][t] =>
               \/ broadcasts[j][t] = "none" /\ broadcasts'[j][t] = "sent"
               \/ broadcasts[j][t] = "sent"
                    /\ broadcasts'[j][t] \in {"accepted", "expired"}]_vars

\* job 1 was offered to every technician, one accepted and another's row
\* expired, and every pair has kept its one document
C27_Witness ==
    /\ \E t \in Techs : broadcasts[1][t] = "accepted"
    /\ \E t \in Techs : broadcasts[1][t] = "expired"
    /\ \A t \in Techs : broadcasts[1][t] # "none"
    /\ \A j \in Jobs, t \in Techs : docs[j][t] = 1

\* the handler of request c has returned
Returned(c) == pc[c] \in {"done", "unanswered"}

\* the transaction of request c is closed: nothing pending, no snapshot held
Closed(c) == snap[c] = NoSnap /\ pend[c] = NoPend

\* C28 (as claimed): an accept request whose handler has returned has been
\* answered, and its transaction is closed, with no write left pending.
C28_Original ==
    \A c \in Calls : Returned(c) => resp[c] # NoResp /\ Closed(c)

\* C28, the part that holds: the handler of technicianBroadcastController.js
\* answers every request it returns from, and both handlers close the
\* transaction on every path.
C28_ControllerAnswers ==
    \A c \in Calls :
       /\ (Returned(c) /\ arg[c].handler = "controller") => resp[c] # NoResp
       /\ Returned(c) => Closed(c)

\* the technicians told that job j was taken by t
NotifiedLosers(j, t) ==
    UNION {n.losers : n \in {m \in notified : m.job = j /\ m.tech = t}}

\* C29 (as claimed): when an accept of job J by T has been answered with
\* success, the technicians notified that J was taken are exactly the
\* technicians other than T whose row for J this commit changed to expired.
C29_Original ==
    \A c \in Calls :
       resp[c] = R_Ok =>
          NotifiedLosers(arg[c].job, arg[c].tech)
            = {u \in Techs \ {arg[c].tech} : broadcasts[arg[c].job][u] = "expired"}

\* C29, the part that holds: respondToJob of technicianBroadcastController.js
\* notifies exactly the technicians whose rows its commit expired.
C29_ControllerNotifiesExpired ==
    \A c \in Calls :
       (resp[c] = R_Ok /\ arg[c].handler = "controller") =>
          NotifiedLosers(arg[c].job, arg[c].tech)
            = {u \in Techs \ {arg[c].tech} : broadcasts[arg[c].job][u] = "expired"}

\* this step runs a rematch for technician t: an accepted location update of
\* t, or a profile update that leaves t online
RematchStep(t) ==
    \/ LocationUpdated(t)
    \/ technicians'[t].isOnline /\ view' = view

\* C30: a step that writes a job record, a broadcast row or a broadcast
\* document in the course of location updates and profile updates is a
\* rematch for one technician T: it leaves every job record and every
\* existing broadcast row as it was, and the rows it adds are sent rows of T
\* for open jobs in range of T's point that had no row for T, one document
\* each.
C30_RematchFrame ==
    [][<<bookings', broadcasts', docs'>> # <<bookings, broadcasts, docs>> =>
         /\ bookings' = bookings
         /\ \E t \in Techs :
               /\ RematchStep(t)
               /\ \A j \in Jobs, u \in Techs :
                     IF broadcasts'[j][u] # broadcasts[j][u]
                       THEN /\ u = t
                            /\ broadcasts[j][u] = "none"
                            /\ broadcasts'[j][u] = "sent"
                            /\ IsOpen(bookings[j])
                            /\ InRange(location'[t], j, NearbyDefaultKm)
                            /\ docs'[j][u] = docs[j][u] + 1
                       ELSE docs'[j][u] = docs[j][u]]_vars

\* a location update has offered technician 1 a newly matched job and left
\* the row of a job offered earlier, and the row of an assigned job, alone
C30_Witness ==
    /\ view.op = "updateTechnicianLocation"
    /\ view.match
    /\ view.jobs # {}
    /\ \E j \in Jobs \ view.jobs : broadcasts[j][1] \in {"sent", "expired"}
    /\ \A j \in view.jobs : broadcasts[j][1] = "sent" /\ docs[j][1] = 1

\* the jobs technician t holds in an active status
ActiveJobsOf(t) ==
    {j \in Jobs : bookings[j].technicianId = t /\ bookings[j].status \in ActiveStatuses}

\* C31 (as claimed): in every committed state a technician is the assigned
\* technician of at most one job whose status is accepted, on_the_way,
\* reached or in_progress.
C31_Original ==
    \A t \in Techs : Cardinality(ActiveJobsOf(t)) <= 1

\* the step that answers request c finds its transaction committed: the
\* commit was an earlier step (the controller is past line 138) or is this
\* very step (part_000 198-199)
CommittedAtAnswer(c) ==
    \/ pc[c] = "notify"
    \/ pc[c] = "commit" /\ bookings'[arg[c].job] # bookings[arg[c].job]

\* C32 (as claimed): the response of an accept is a success if and only if
\* the transaction of this request committed the assignment; a failure after
\* the commit does not turn the response into an error.
C32_Original ==
    [][\A c \in Calls :
          resp'[c] # resp[c] => ((resp'[c] = R_Ok) <=> CommittedAtAnswer(c))]_vars

\* C32, the part that holds: a request is answered with success only when
\* its own transaction has committed the assignment of the job to its
\* technician.
C32_SuccessOnlyIfCommitted ==
    [][\A c \in Calls :
          (resp'[c] # resp[c] /\ resp'[c] = R_Ok) =>
             /\ CommittedAtAnswer(c)
             /\ bookings'[arg[c].job].technicianId = arg[c].tech]_vars

C33_OnlineSetWhenReady ==
    [][\A t \in Techs :
          /\ (technicians'[t].isOnline /\ ~technicians[t].isOnline) =>
                /\ technicians'[t].trainingCompleted
                /\ technicians'[t].workStatus = "approved"
          /\ technicians'[t].isOnline => technicians'[t].workStatus # "suspended"]_vars

\* this step answers request c, which carried an action other than
\* accept/accepted and arrived when its technician had no active job and
\* held a sent broadcast for the open job; no store operation failed
RejectReturns(c) ==
    /\ pc[c] # "done"
    /\ pc'[c] = "done"
    /\ resp'[c].kind \notin {"store_error", "aborted", "notify_error"}
    /\ arg'[c].act \notin AcceptWords
    /\ atStart'[c].fail = "none"
    /\ atStart'[c].open

\* what the claim promises for such a request: invalid input, job still
\* open, broadcast still sent
RejectedUnchanged(c) ==
    /\ resp'[c] = R_Invalid
    /\ IsOpen(bookings'[arg'[c].job])
    /\ broadcasts'[arg'[c].job][arg'[c].tech] = "sent"

\* C34 (as claimed): respondToJob called with an action other than
\* accept/accepted by a technician who has no active job and holds a sent
\* broadcast for the job is rejected as invalid input and changes nothing.
C34_Original ==
    [][\A c \in Calls : RejectReturns(c) => RejectedUnchanged(c)]_vars

\* C34, the part that holds: respondToJob of
\* technicianBroadcastController.js rejects every such request whose status
\* is a string as invalid input, and no such request through it, whatever
\* its status, changes the job or a broadcast.
C34_ControllerRejects ==
    [][\A c \in Calls :
          (RejectReturns(c) /\ arg'[c].handler = "controller") =>
             /\ arg'[c].act # NonString => RejectedUnchanged(c)
             /\ IsOpen(bookings'[arg'[c].job])
             /\ broadcasts'[arg'[c].job][arg'[c].tech] = "sent"]_vars

\* ------------------------------------------------ wallet vocabulary
\* every wallet request that has arrived has been answered
AllAnswered == \A w \in Ops : ops[w].pc \in {"idle", "done"}

Signed(e) == IF e.type = "credit" THEN e.amount ELSE 0 - e.amount

\* the sum of the ledger entries E, credits counted positive
RECURSIVE Total(_)
Total(E) ==
    IF E = {} THEN 0
    ELSE LET e == CHOOSE x \in E : TRUE IN Signed(e) + Total(E \ {e})

\* the sum of the amounts of the withdrawal requests I
RECURSIVE Amounts(_)
Amounts(I) ==
    IF I = {} THEN 0
    ELSE LET i == CHOOSE x \in I : TRUE
         IN withdrawRequests[i].amount + Amounts(I \ {i})

ManualEntries(t) ==
    {e \in walletTransactions : e.technicianId = t /\ e.note = "manual"}

ApprovedOf(t) ==
    {i \in WithdrawIds : /\ withdrawRequests[i].technicianId = t
                         /\ withdrawRequests[i].status = "approved"}

\* C35 (as claimed): once every withdrawal request of a technician has ended
\* and every handler has answered, the balance has changed by -a for each
\* request of amount a that ended approved and by 0 for each request that
\* ended rejected or cancelled (manual entries counted apart).
C35_Original ==
    \A t \in Techs :
       (AllAnswered /\ PendingOf(t) = {}) =>
          walletBalance[t] =
             InitialBalance + Total(ManualEntries(t)) - Amounts(ApprovedOf(t))

\* C35, what holds instead: once every handler has answered, the balance is
\* the initial balance plus the ledger, credits added and debits taken.
C35_BalanceFollowsLedger ==
    \A t \in Techs :
       AllAnswered =>
          walletBalance[t] =
             InitialBalance
               + Total({e \in walletTransactions : e.technicianId = t})

\* C36 (as claimed): a technician's walletBalance is never negative.
C36_Original ==
    \A t \in Techs : walletBalance[t] >= 0

\* C37 (as claimed): a technician has at most one withdrawal request in
\* status pending.
C37_Original ==
    \A t \in Techs : Cardinality(PendingOf(t)) <= 1

\* C37, the part that holds: requests served one after the other never leave
\* a second pending request: a request that creates one began its check
\* before the pending request it joins was committed.  Stated on the step:
\* a request whose check found a pending request creates nothing.
C37_CheckedRequestCreatesNothing ==
    [][\A w \in Ops :
          (/\ ops[w].kind = "requestWithdraw"
           /\ ops[w].pc = "findPending"
           /\ PendingOf(ops[w].who) # {}
           /\ ops'[w] # ops[w])
          => ops'[w].seen = 400 /\ withdrawRequests' = withdrawRequests]_vars

\* the handlers that resolved request i and answered with success
Resolvers(i) ==
    {w \in Ops : /\ ops[w].kind \in {"approveWithdraw", "rejectWithdraw",
                                      "cancelMyWithdrawal"}
                 /\ ops[w].id = i
                 /\ ops[w].pc = "done"
                 /\ ops[w].seen = 200}

\* the ledger entries written for the resolution of request i
ResolutionEntries(i) ==
    {e \in walletTransactions : e.request = i /\ e.note \in {"approved", "refund"}}

\* C38 (as claimed): a withdrawal request changes status only from pending
\* and only to approved or rejected; at most one of approveWithdraw,
\* rejectWithdraw and cancelMyWithdrawal takes effect on it, and the ledger
\* effect of its resolution is applied at most once.
C38_Original ==
    [][\A i \in WithdrawIds :
          /\ (/\ withdrawRequests[i] # NoWithdraw
              /\ withdrawRequests'[i].status # withdrawRequests[i].status)
             => /\ withdrawRequests[i].status = "pending"
                /\ withdrawRequests'[i].status \in {"approved", "rejected"}
          /\ Cardinality(Resolvers(i)') <= 1
          /\ Cardinality(ResolutionEntries(i)') <= 1]_vars

\* C38, the part that holds: a request never returns to pending and its
\* status is only ever pending, approved or rejected.
C38_NeverPendingAgain ==
    [][\A i \in WithdrawIds :
          /\ withdrawRequests'[i].status \in {"none", "pending", "approved", "rejected"}
          /\ withdrawRequests[i].status \in {"approved", "rejected"}
             => withdrawRequests'[i].status \in {"approved", "rejected"}]_vars

\* C39 (as claimed): there is at most one rating per booking, and a rating
\* exists only for a booking that is completed and belongs to the user who
\* rated it.
C39_Original ==
    \A j \in Jobs :
       /\ Cardinality(RatingsOf(j)) <= 1
       /\ \A r \in RatingsOf(j) :
             bookings[j].status = "completed" /\ CustomerOf(j) = r.userId

\* C39, the part that holds: a rating exists only for a completed booking of
\* the user who rated it, and a request that found a rating creates none.
C39_OnlyCompletedOwn ==
    /\ \A r \in ratings :
          /\ bookings[r.bookingId].status = "completed"
          /\ CustomerOf(r.bookingId) = r.userId
    /\ \A w \in Ops :
          (ops[w].kind = "userRating" /\ ops[w].seen = 409) =>
             \A r \in ratings : r.op # w
====
